---- MODULE Spec2Model ----
(***************************************************************************)
(* SuperEnalotto sestine generator: the combination sampler, the uniqueness *)
(* allocator, the chunked generation of App.tsx and the group operations.   *)
(*                                                                          *)
(* 32-bit values of the code (Math.imul, >>>, ^, | 0) are kept at their     *)
(* width.  TLC's integers stop at 2^31-1, so a 32-bit word is the pair      *)
(* <<hi, lo>> of its two 16-bit halves.  Strings are sequences of character *)
(* codes, so that hashing and key building are computed as the code does.   *)
(***************************************************************************)
EXTENDS Integers, Sequences, FiniteSets, TLC

(* ------------------------------------------------------------------ *)
(* 32-bit word arithmetic (JavaScript int32 / uint32 operators)          *)
(* ------------------------------------------------------------------ *)
H16 == 256 * 256

Pow2(k) == CASE k = 0 -> 1 [] k = 1 -> 2 [] k = 2 -> 4 [] k = 3 -> 8
             [] k = 4 -> 16 [] k = 5 -> 32 [] k = 6 -> 64 [] k = 7 -> 128
             [] k = 8 -> 256 [] k = 9 -> 512 [] k = 10 -> 1024 [] k = 11 -> 2048
             [] k = 12 -> 4096 [] k = 13 -> 8192 [] k = 14 -> 16384
             [] k = 15 -> 32768 [] k = 16 -> 65536

Xor1(a, b) == (a + b) % 2

Xor4 == [a \in 0..15 |-> [b \in 0..15 |->
           Xor1(a % 2, b % 2)
         + 2 * Xor1((a \div 2) % 2, (b \div 2) % 2)
         + 4 * Xor1((a \div 4) % 2, (b \div 4) % 2)
         + 8 * Xor1((a \div 8) % 2, (b \div 8) % 2)]]

\* a ^ b on 16-bit halves
Xor16(a, b) ==
      Xor4[a % 16][b % 16]
    + 16 * Xor4[(a \div 16) % 16][(b \div 16) % 16]
    + 256 * Xor4[(a \div 256) % 16][(b \div 256) % 16]
    + 4096 * Xor4[(a \div 4096) % 16][(b \div 4096) % 16]

\* a | b on 16-bit halves: a | b = (a + b + (a ^ b)) / 2
Or16(a, b) == (a + b + Xor16(a, b)) \div 2

W(hi, lo) == <<hi, lo>>

Xor32(x, y) == <<Xor16(x[1], y[1]), Xor16(x[2], y[2])>>

Or32(x, y) == <<Or16(x[1], y[1]), Or16(x[2], y[2])>>

\* (x + y) mod 2^32
Add32(x, y) ==
    LET lo == x[2] + y[2]
    IN  <<(x[1] + y[1] + (lo \div H16)) % H16, lo % H16>>

\* x >>> k, 0 <= k < 32
Shr32(x, k) ==
    IF k = 0 THEN x
    ELSE IF k >= 16 THEN <<0, x[1] \div Pow2(k - 16)>>
    ELSE <<x[1] \div Pow2(k),
           (x[2] \div Pow2(k)) + (x[1] % Pow2(k)) * Pow2(16 - k)>>

\* (x << k) mod 2^32, 0 <= k < 32
Shl32(x, k) ==
    IF k = 0 THEN x
    ELSE IF k >= 16 THEN <<(x[2] % Pow2(32 - k)) * Pow2(k - 16), 0>>
    ELSE <<((x[1] % Pow2(16 - k)) * Pow2(k)) + (x[2] \div Pow2(16 - k)),
           (x[2] % Pow2(16 - k)) * Pow2(k)>>

\* (x * b) mod 2^32 for a byte b
MulByte(x, b) ==
    LET lo == x[2] * b
    IN  <<(x[1] * b + (lo \div H16)) % H16, lo % H16>>

\* Math.imul(x, y): the low 32 bits of the product
Imul32(x, y) ==
    Add32(Add32(MulByte(x, y[2] % 256),
                Shl32(MulByte(x, y[2] \div 256), 8)),
          Add32(Shl32(MulByte(x, y[1] % 256), 16),
                Shl32(MulByte(x, y[1] \div 256), 24)))

\* a small natural number as a word
WordOf(n) == <<n \div H16, n % H16>>

(* ------------------------------------------------------------------ *)
(* Strings as sequences of character codes                               *)
(* ------------------------------------------------------------------ *)
\* In the recursive definitions a test such as "IF Len(p) >= 0" only makes TLC
\* compute the value p before it recurses; it is always true.
RECURSIVE DecStr(_)
\* String(n) for a natural number: its decimal digits
DecStr(n) == IF n < 10 THEN <<48 + n>> ELSE DecStr(n \div 10) \o <<48 + (n % 10)>>

RECURSIVE TrimLeft(_)
TrimLeft(s) == IF s # <<>> /\ Head(s) = 32 THEN TrimLeft(Tail(s)) ELSE s

RECURSIVE TrimRight(_)
TrimRight(s) ==
    IF s # <<>> /\ s[Len(s)] = 32 THEN TrimRight(SubSeq(s, 1, Len(s) - 1)) ELSE s

\* String.prototype.trim on the characters used here (space is the only blank)
Trim(s) == TrimRight(TrimLeft(s))

SepStr == <<58, 58>>                         \* "::"
BaseStr == <<98, 97, 115, 101>>              \* "base"
RegenStr == <<114, 101, 103, 101, 110>>      \* "regen"

(* ------------------------------------------------------------------ *)
(* lib/rng.ts                                                            *)
(* ------------------------------------------------------------------ *)
FnvOffset == <<33052, 40389>>                \* 2166136261
FnvPrime == <<256, 403>>                     \* 16777619
MulberryInc == <<27947, 31221>>              \* 0x6D2B79F5

RECURSIVE FnvFold(_, _)
FnvNext(n, s) == IF n[1] >= 0 THEN FnvFold(n, s) ELSE n

\* the loop of xfnv1a: h ^= charCode; h = Math.imul(h, 16777619)
FnvFold(h, s) ==
    IF s = <<>> THEN h
    ELSE FnvNext(Imul32(Xor32(h, <<0, Head(s)>>), FnvPrime), Tail(s))

\* h += h << k
FnvAddShl(h, k) == Add32(h, Shl32(h, k))

\* h ^= h >>> k
FnvXorShr(h, k) == Xor32(h, Shr32(h, k))

\* the first value of the closure xfnv1a returns, as the 32-bit integer h >>> 0:
\* h += h << 13; h ^= h >>> 7; h += h << 3; h ^= h >>> 17; h += h << 5
xfnv1a(str) ==
    FnvAddShl(FnvXorShr(FnvAddShl(FnvXorShr(FnvAddShl(
        FnvFold(FnvOffset, str), 13), 7), 3), 17), 5)

\* let t = Math.imul(a ^ (a >>> 15), 1 | a)
MulberryT1(a) == Imul32(Xor32(a, Shr32(a, 15)), Or32(<<0, 1>>, a))

\* t ^= t + Math.imul(t ^ (t >>> 7), 61 | t)
MulberryT2(t) == Xor32(t, Add32(t, Imul32(Xor32(t, Shr32(t, 7)), Or32(<<0, 61>>, t))))

\* ((t ^ (t >>> 14)) >>> 0), the numerator of the float over 2^32
MulberryOut(t) == Xor32(t, Shr32(t, 14))

MulberryAt(a) == [a |-> a, v |-> MulberryOut(MulberryT2(MulberryT1(a)))]

\* one call of the closure mulberry32 returns: a = (a + 0x6D2B79F5) | 0, then
\* the value computed from the new a
MulberryStep(a) == MulberryAt(Add32(a, MulberryInc))

\* An RNG is a closure () => number in [0,1).  Its state is either the word of
\* mulberry32, or a position on a finite tape of values that repeats (an
\* arbitrary caller-supplied stream).
mulberry32(seed) == [kind |-> "mulberry", a |-> seed, tape |-> <<>>, pos |-> 0]

TapeRng(tape) == [kind |-> "tape", a |-> <<0, 0>>, tape |-> tape, pos |-> 0]

\* rngFromSeed: n = Math.floor(h() * 2^32) >>> 0 is the hash word itself
rngFromSeed(seed) == mulberry32(xfnv1a(seed))

\* rng(): the value drawn (numerator over 2^32) and the advanced closure
Drawn(rng, s) == [v |-> s.v, rng |-> [rng EXCEPT !.a = s.a]]

RngNext(rng) ==
    IF rng.kind = "mulberry"
    THEN Drawn(rng, MulberryStep(rng.a))
    ELSE [v |-> rng.tape[(rng.pos % Len(rng.tape)) + 1],
          rng |-> [rng EXCEPT !.pos = (rng.pos + 1) % Len(rng.tape)]]

(* ------------------------------------------------------------------ *)
(* lib/sestine.ts                                                        *)
(* ------------------------------------------------------------------ *)
MIN_NUM == 1
MAX_NUM == 90
SESTINA_LEN == 6

\* The code's guards, scaled down so that a failing loop stays explorable:
\* 100_000 draws of the fill loop, 50_000 nonces of one slot, and the depth at
\* which the engine stops the sampler's recursion on itself.
FillGuard == 24
NonceLimit == 3
StackLimit == 2

SeqToSet(s) == {s[i] : i \in 1..Len(s)}

Includes(s, x) == \E i \in 1..Len(s) : s[i] = x

\* x put into the ascending sequence s, after the elements not above it
InsertSorted(s, x) ==
    LET k == Cardinality({j \in 1..Len(s) : s[j] <= x})
    IN  SubSeq(s, 1, k) \o <<x>> \o SubSeq(s, k + 1, Len(s))

RECURSIVE SortFrom(_, _, _)
SortFrom(acc, s, i) ==
    IF i > Len(s) THEN acc
    ELSE LET t == InsertSorted(acc, s[i])
         IN  IF Len(t) >= 0 THEN SortFrom(t, s, i + 1) ELSE t

\* [...nums].sort((a, b) => a - b)
SortAsc(s) == SortFrom(<<>>, s, 1)

\* seeded fault: the numbers are returned in the order they were picked
normalizeNums_Unsorted(nums) == nums

normalizeNums(nums) == SortAsc(nums)

RECURSIVE Join(_)
\* nums.join("-")
Join(nums) ==
    IF nums = <<>> THEN <<>>
    ELSE IF Len(nums) = 1 THEN DecStr(nums[1])
    ELSE DecStr(Head(nums)) \o <<45>> \o Join(Tail(nums))

\* seeded fault: the numbers are joined in the order given
sestinaKey_AsGiven(nums) == Join(nums)

sestinaKey(nums) == Join(normalizeNums(nums))

\* rngInt on the value v drawn from rng(), v the numerator of the float v / 2^32:
\* Math.floor((v / 2^32) * (max - min + 1)) + min
rngInt(v, min, max) ==
    LET span == max - min + 1
    IN  ((v[1] * span + ((v[2] * span) \div H16)) \div H16) + min

isValidSestina(nums, c) ==
    LET set == SeqToSet(nums)
    IN  /\ \A i \in 1..Len(c.exclude) : c.exclude[i] \notin set
        /\ \A i \in 1..Len(c.mustInclude) : c.mustInclude[i] \in set
        /\ (Len(c.mustIncludeAnyOf) > 0
              => \E i \in 1..Len(c.mustIncludeAnyOf) : c.mustIncludeAnyOf[i] \in set)

RECURSIVE AddFrom(_, _, _)
AddFrom(picked, list, i) ==
    IF i > Len(list) THEN picked
    ELSE LET p == IF Includes(picked, list[i]) THEN picked
                  ELSE Append(picked, list[i])
         IN  IF Len(p) >= 0 THEN AddFrom(p, list, i + 1) ELSE p

\* seeded fault: the first entry of the list is skipped
AddAll_Skip(picked, list) == AddFrom(picked, list, 2)

\* for (const n of list) picked.add(n): a Set keeps insertion order, no duplicate
AddAll(picked, list) == AddFrom(picked, list, 1)

SampleResult(err, nums, rng, draws) ==
    [err |-> err, nums |-> nums, rng |-> rng, draws |-> draws]

RECURSIVE FillLoop(_, _, _, _, _)
\* one iteration of the fill loop, d the value drawn and the advanced closure:
\* const x = rngInt(...); if (picked.has(x)) continue;
\* if (exclude.includes(x)) continue; picked.add(x)
\* seeded fault: the drawn number is not compared with exclude
FillDraw_NoExclude(d, x, picked, exclude, guard, draws) ==
    IF Includes(picked, x)
    THEN FillLoop(d.rng, picked, exclude, guard, draws + 1)
    ELSE FillLoop(d.rng, Append(picked, x), exclude, guard, draws + 1)

FillDraw(d, x, picked, exclude, guard, draws) ==
    IF Includes(picked, x) \/ Includes(exclude, x)
    THEN FillLoop(d.rng, picked, exclude, guard, draws + 1)
    ELSE FillLoop(d.rng, Append(picked, x), exclude, guard, draws + 1)

FillNext(d, picked, exclude, guard, draws) ==
    FillDraw(d, rngInt(d.v, MIN_NUM, MAX_NUM), picked, exclude, guard, draws)

\* the loop "while (picked.size < 6)"; guard counts its iterations, draws the
\* calls of rng()
FillLoop(rng, picked, exclude, guard, draws) ==
    IF Len(picked) >= SESTINA_LEN THEN SampleResult("none", picked, rng, draws)
    ELSE IF guard + 1 > FillGuard THEN SampleResult("loop", picked, rng, draws)
    ELSE FillNext(RngNext(rng), picked, exclude, guard + 1, draws)

RECURSIVE SampleFrom(_, _, _, _)
\* after the fill loop: sort, check, and call itself again when the check fails
SampleCheck(f, nums, constraints, depth) ==
    IF f.err # "none" THEN SampleResult(f.err, <<>>, f.rng, f.draws)
    ELSE IF ~isValidSestina(nums, constraints)
    THEN IF depth >= StackLimit
         THEN SampleResult("stack", <<>>, f.rng, f.draws)
         ELSE SampleFrom(f.rng, constraints, depth + 1, f.draws)
    ELSE SampleResult("none", nums, f.rng, f.draws)

SampleFilled(f, constraints, depth) ==
    SampleCheck(f, normalizeNums(f.nums), constraints, depth)

\* seeded fault: the test is off by one
TooMany_Late(picked) == Len(picked) > SESTINA_LEN + 1

\* if (picked.size > 6) throw
TooMany(picked) == Len(picked) > SESTINA_LEN

SampleSeeded(rng, picked, constraints, depth, draws) ==
    IF TooMany(picked) THEN SampleResult("tooMany", <<>>, rng, draws)
    ELSE SampleFilled(FillLoop(rng, picked, constraints.exclude, 0, draws),
                      constraints, depth)

\* generateRandomSestinaWithConstraints at recursion depth `depth`, after `draws`
\* values were already taken from rng
SampleFrom(rng, constraints, depth, draws) ==
    SampleSeeded(rng, AddAll(<<>>, constraints.mustInclude), constraints, depth, draws)

generateRandomSestinaWithConstraints(rng, constraints) ==
    SampleFrom(rng, constraints, 0, 0)

(* ------------------------------------------------------------------ *)
(* rngFactory: the closures App.tsx passes to generateUniqueSestine      *)
(* ------------------------------------------------------------------ *)
LcgMul == <<15470, 62303>>                   \* 1013904223

\* A factory is the data its closure captured:
\*   "seedGen"  generate, seed on : rngFromSeed(prefix + String(nonceBase + nonce))
\*   "baseGen"  generate, seed off: mulberry32((base + nn * 1013904223) >>> 0)
\*   "seedRegen" regenerate, seed on: rngFromSeed(prefix + String(nonce))
\*   "cryptoRegen" regenerate, seed off: mulberry32((crypto + nonce) >>> 0), a new
\*              crypto value at every call, taken in turn from ent
\*   "tapes"    any other factory: nonce n gives the stream tapes[n]
Factory(mode, prefix, base, nonceBase, ent, tapes) ==
    [mode |-> mode, prefix |-> prefix, base |-> base, nonceBase |-> nonceBase,
     ent |-> ent, tapes |-> tapes]

\* seeded fault: every call of the factory derives a stream of its own
RngFactory_PerCall(f, nonce, calls) ==
    CASE f.mode = "seedGen" ->
           rngFromSeed(f.prefix \o DecStr(f.nonceBase + nonce + calls))
      [] f.mode = "baseGen" ->
           mulberry32(Add32(f.base, Imul32(WordOf(f.nonceBase + nonce + calls), LcgMul)))
      [] f.mode = "seedRegen" ->
           rngFromSeed(f.prefix \o DecStr(nonce + calls))
      [] f.mode = "cryptoRegen" ->
           mulberry32(Add32(f.ent[(calls % Len(f.ent)) + 1], WordOf(nonce)))
      [] OTHER ->
           TapeRng(f.tapes[(nonce % Len(f.tapes)) + 1])

\* rngFactory(nonce), the call being the calls-th (from 0) of this factory
RngFactory(f, nonce, calls) ==
    CASE f.mode = "seedGen" ->
           rngFromSeed(f.prefix \o DecStr(f.nonceBase + nonce))
      [] f.mode = "baseGen" ->
           mulberry32(Add32(f.base, Imul32(WordOf(f.nonceBase + nonce), LcgMul)))
      [] f.mode = "seedRegen" ->
           rngFromSeed(f.prefix \o DecStr(nonce))
      [] f.mode = "cryptoRegen" ->
           mulberry32(Add32(f.ent[(calls % Len(f.ent)) + 1], WordOf(nonce)))
      [] OTHER ->
           TapeRng(f.tapes[(nonce % Len(f.tapes)) + 1])

\* options?.seed is undefined when the seed is off: seedOn tells it from ""
Options(seedOn, seed, superstitionMode) ==
    [seedOn |-> seedOn, seed |-> seed, superstitionMode |-> superstitionMode]

NewSestina(nums, key, i, nonce, options) ==
    [nums |-> nums, key |-> key, createdAt |-> i, frozen |-> FALSE,
     meta |-> [seedOn |-> options.seedOn, seed |-> options.seed,
               attemptNonce |-> nonce,
               superstitionMode |-> options.superstitionMode]]

\* What a call leaves behind: err "none" and the list returned, or the error
\* thrown; keys is existingKeys as the call left it (the set is mutated in
\* place), calls the number of rngFactory calls, out the local list.
AllocResult(err, out, keys, calls) ==
    [err |-> err, out |-> out, keys |-> keys, calls |-> calls]

\* seeded fault: the accepted key is not added to the set
AddKey_Forget(keys, key) == keys

\* existingKeys.add(key)
AddKey(keys, key) == keys \cup {key}

RECURSIVE AllocLoop(_, _, _, _, _, _, _, _, _)
\* seeded fault: the nonce error is thrown when nonce reaches the limit
AllocTry_Early(r, key, i, nonce, count, keys, f, constraints, options, out, calls) ==
    IF r.err # "none" THEN AllocResult(r.err, out, keys, calls + 1)
    ELSE IF key \notin keys
    THEN AllocLoop(i + 1, 0, count, AddKey(keys, key), f, constraints, options,
                   Append(out, NewSestina(r.nums, key, i, nonce, options)),
                   calls + 1)
    ELSE IF nonce + 1 >= NonceLimit
    THEN AllocResult("nonce", out, keys, calls + 1)
    ELSE AllocLoop(i, nonce + 1, count, keys, f, constraints, options, out,
                   calls + 1)

\* the body of "while (!ok)" once the sample r and its key are known
AllocTry(r, key, i, nonce, count, keys, f, constraints, options, out, calls) ==
    IF r.err # "none" THEN AllocResult(r.err, out, keys, calls + 1)
    ELSE IF key \notin keys
    THEN AllocLoop(i + 1, 0, count, AddKey(keys, key), f, constraints, options,
                   Append(out, NewSestina(r.nums, key, i, nonce, options)),
                   calls + 1)
    ELSE IF nonce + 1 > NonceLimit
    THEN AllocResult("nonce", out, keys, calls + 1)
    ELSE AllocLoop(i, nonce + 1, count, keys, f, constraints, options, out,
                   calls + 1)

AllocSample(r, i, nonce, count, keys, f, constraints, options, out, calls) ==
    AllocTry(r, sestinaKey(r.nums), i, nonce, count, keys, f, constraints, options,
             out, calls)

\* the for loop at slot i, inside "while (!ok)" at nonce
AllocLoop(i, nonce, count, keys, f, constraints, options, out, calls) ==
    IF i >= count THEN AllocResult("none", out, keys, calls)
    ELSE AllocSample(generateRandomSestinaWithConstraints(
                         RngFactory(f, nonce, calls), constraints),
                     i, nonce, count, keys, f, constraints, options, out, calls)

generateUniqueSestine(count, existingKeys, rngFactory, constraints, options) ==
    AllocLoop(0, 0, count, existingKeys, rngFactory, constraints, options, <<>>, 0)

(* ------------------------------------------------------------------ *)
(* Bounds of the exploration and the inputs the user can enter           *)
(* ------------------------------------------------------------------ *)
MaxGroups == 2          \* groups ever created
MaxSestine == 2         \* combinations stored across all groups when "Genera" is clicked
MaxCount == 2           \* largest count asked of one generation
MaxEvents == 2          \* events kept by one group
\* The code's chunk of 50 is ChunkUnit: CHUNK is 5, 4, 2 or 1 units for a count
\* of at least 100, 20, 4 units or less (250/200/100/50 for 5000/1000/200).
ChunkUnit == 1

Null == <<>>

SeedValues == {<<65, 32>>}                               \* "A "
ExcludeInputs == {<<>>, <<7>>}
MustIncludeInputs == {<<>>, <<42, 7, 14, 21, 28, 35, 49>>}
AnyOfInputs == {<<>>, [i \in 1..45 |-> i]}
\* values of crypto.getRandomValues(new Uint32Array(1))[0]
BaseEntropy == {<<0, 0>>}
EntropyValues == {<<0, 0>>, <<65535, 65535>>}

(* ------------------------------------------------------------------ *)
(* App.tsx: the state of the component                                   *)
(* ------------------------------------------------------------------ *)
VARIABLES
    groups,           \* state.groups: sequence of [id, sestine, events]
    selectedGroupId,  \* id of the selected group, or Null
    settings,         \* state.settings
    isGenerating,     \* useState flag: disables the generation buttons
    genModal,         \* progress shown: [total, done], or Null
    genAbortRef,      \* genAbortRef.current
    gen,              \* the locals of the suspended generateForSelectedGroup
    nextGroup,        \* number of groups created so far (ids are never reused)
    outcome,          \* what the last step ended: a generation, a regeneration, nothing
    fx                \* argument and result of a library call (SpecLib only)

vars == <<groups, selectedGroupId, settings, isGenerating, genModal, genAbortRef,
          gen, nextGroup, outcome, fx>>

appVars == <<groups, selectedGroupId, settings, isGenerating, genModal, genAbortRef,
             gen, nextGroup, outcome>>

Min(a, b) == IF a < b THEN a ELSE b
Max(a, b) == IF a > b THEN a ELSE b

\* clampNumList on the tokens of the text: keep 1..90, drop repeats, sort
clampNumList(tokens) ==
    SortAsc(AddAll(<<>>, SelectSeq(tokens, LAMBDA n : n >= 1 /\ n <= 90)))

\* defaultState().settings; birthDate is Null or <<year, month, day>>
defaultSettings ==
    [seedEnabled |-> FALSE,
     seedValue |-> <<80, 65, 83, 81, 85, 65, 50, 48, 50, 54>>,   \* "PASQUA2026"
     exclude |-> <<>>, mustInclude |-> <<>>, mustIncludeAnyOf |-> <<>>,
     superstitionEnabled |-> FALSE, luckyNumbers |-> <<>>, unluckyNumbers |-> <<>>,
     birthDate |-> Null]

\* JavaScript n % 90 for n >= -1 (the sign follows the dividend)
JsRem90(n) == IF n < 0 THEN 0 - ((0 - n) % 90) ELSE n % 90

OrNinety(n) == IF n = 0 THEN 90 ELSE n

birthDateToLucky(date) ==
    IF date = Null THEN <<>>
    ELSE LET y == date[1]
             mo == date[2]
             d == date[3]
             arr == <<d, mo, y % 100, OrNinety((d + mo) % 90),
                      OrNinety((d + (y % 100)) % 90)>>
         IN  SortAsc(AddAll(<<>>, [i \in 1..5 |-> JsRem90(arr[i] - 1) + 1]))

\* the useMemo "constraints"
Constraints(s) ==
    LET birthLucky == IF s.superstitionEnabled THEN birthDateToLucky(s.birthDate)
                      ELSE <<>>
        lucky == IF s.superstitionEnabled
                 THEN AddAll(AddAll(<<>>, s.luckyNumbers), birthLucky) ELSE <<>>
        unlucky == IF s.superstitionEnabled THEN s.unluckyNumbers ELSE <<>>
    IN  [exclude |-> SortAsc(AddAll(AddAll(<<>>, s.exclude), unlucky)),
         mustInclude |-> s.mustInclude,
         mustIncludeAnyOf |-> SortAsc(AddAll(AddAll(<<>>, s.mustIncludeAnyOf), lucky))]

GroupIds == {groups[i].id : i \in 1..Len(groups)}

GroupById(gid) == groups[CHOOSE i \in 1..Len(groups) : groups[i].id = gid]

\* the useMemo "selectedGroup" is null when no group has the selected id
HasSelectedGroup == selectedGroupId \in GroupIds

RECURSIVE SumLen(_)
SumLen(gs) == IF gs = <<>> THEN 0 ELSE Len(Head(gs).sestine) + SumLen(Tail(gs))

\* the useMemo "totalSestine"
totalSestine == SumLen(groups)

\* seeded fault: the snapshot holds the keys of the selected group only
globalKeys_Selected ==
    UNION {{groups[i].sestine[j].key : j \in 1..Len(groups[i].sestine)} :
             i \in {k \in 1..Len(groups) : groups[k].id = selectedGroupId}}

\* the useMemo "globalKeys"
globalKeys ==
    UNION {{groups[i].sestine[j].key : j \in 1..Len(groups[i].sestine)} :
             i \in 1..Len(groups)}

\* the effect that repairs the selection after groups changed
FixSelection(gs, sel) ==
    IF sel # Null /\ \E i \in 1..Len(gs) : gs[i].id = sel THEN sel
    ELSE IF gs = <<>> THEN Null ELSE gs[1].id

\* newId("group"): a fresh id; the k-th group created is "g<k>"
newId(k) == <<103>> \o DecStr(k)

\* how a call ended, with the done values it passed to setGenModal and its total
Outcome(kind, err, reports, total) ==
    [kind |-> kind, err |-> err, reports |-> reports, total |-> total]

NoOutcome == Outcome("none", "none", <<>>, 0)

\* of an event the model keeps its type and its count
GenerateEvent(count) == [type |-> "generate", count |-> count]

(* ------------------------------------------------------------------ *)
(* App.tsx: group operations                                             *)
(* ------------------------------------------------------------------ *)
MapGroup(gs, gid, F(_)) == [i \in 1..Len(gs) |-> IF gs[i].id = gid THEN F(gs[i]) ELSE gs[i]]

addGroup ==
    /\ nextGroup < MaxGroups
    /\ LET g == [id |-> newId(nextGroup + 1), sestine |-> <<>>, events |-> <<>>]
       IN  /\ groups' = <<g>> \o groups
           /\ selectedGroupId' = g.id
    /\ nextGroup' = nextGroup + 1
    /\ outcome' = NoOutcome
    /\ UNCHANGED <<settings, isGenerating, genModal, genAbortRef, gen, fx>>

\* the button "Elimina gruppo" of the selected group; it stays enabled while a
\* generation is suspended
deleteGroup ==
    /\ HasSelectedGroup
    /\ groups' = SelectSeq(groups, LAMBDA g : g.id # selectedGroupId)
    /\ selectedGroupId' = FixSelection(groups', selectedGroupId)
    /\ outcome' = NoOutcome
    /\ UNCHANGED <<settings, isGenerating, genModal, genAbortRef, gen, nextGroup, fx>>

ClearedGroup(g) == [g EXCEPT !.sestine = <<>>]

clearGroup ==
    /\ HasSelectedGroup
    /\ ~isGenerating
    /\ Len(GroupById(selectedGroupId).sestine) > 0
    /\ groups' = MapGroup(groups, selectedGroupId, ClearedGroup)
    /\ outcome' = NoOutcome
    /\ UNCHANGED <<selectedGroupId, settings, isGenerating, genModal, genAbortRef,
                   gen, nextGroup, fx>>

toggleFreeze(key) ==
    /\ HasSelectedGroup
    /\ ~isGenerating
    /\ LET Toggled(g) ==
               [g EXCEPT !.sestine =
                   [j \in 1..Len(g.sestine) |->
                       IF g.sestine[j].key = key
                       THEN [g.sestine[j] EXCEPT !.frozen = ~@]
                       ELSE g.sestine[j]]]
       IN  groups' = MapGroup(groups, selectedGroupId, Toggled)
    /\ outcome' = NoOutcome
    /\ UNCHANGED <<selectedGroupId, settings, isGenerating, genModal, genAbortRef,
                   gen, nextGroup, fx>>

removeSestina(key) ==
    /\ HasSelectedGroup
    /\ ~isGenerating
    /\ LET Removed(g) ==
               [g EXCEPT !.sestine = SelectSeq(g.sestine, LAMBDA x : x.key # key)]
       IN  groups' = MapGroup(groups, selectedGroupId, Removed)
    /\ outcome' = NoOutcome
    /\ UNCHANGED <<selectedGroupId, settings, isGenerating, genModal, genAbortRef,
                   gen, nextGroup, fx>>

\* a click on a group of the sidebar
selectGroup(gid) ==
    /\ gid \in GroupIds
    /\ gid # selectedGroupId
    /\ selectedGroupId' = gid
    /\ outcome' = NoOutcome
    /\ UNCHANGED <<groups, settings, isGenerating, genModal, genAbortRef, gen,
                   nextGroup, fx>>

\* setState(defaultState()); setSelectedGroupId(null)
resetAll ==
    /\ Len(groups) > 0
    /\ groups' = <<>>
    /\ settings' = defaultSettings
    /\ selectedGroupId' = Null
    /\ outcome' = NoOutcome
    /\ UNCHANGED <<isGenerating, genModal, genAbortRef, gen, nextGroup, fx>>

(* ------------------------------------------------------------------ *)
(* App.tsx: the settings inputs                                          *)
(* ------------------------------------------------------------------ *)
SetSetting(field, value) ==
    /\ settings[field] # value
    /\ settings' = [settings EXCEPT ![field] = value]
    /\ outcome' = NoOutcome
    /\ UNCHANGED <<groups, selectedGroupId, isGenerating, genModal, genAbortRef,
                   gen, nextGroup, fx>>

setSeedEnabled == \E v \in BOOLEAN : SetSetting("seedEnabled", v)

\* the input is disabled while the seed is off
setSeedValue == \E v \in SeedValues : settings.seedEnabled /\ SetSetting("seedValue", v)

setExclude == \E l \in ExcludeInputs : SetSetting("exclude", clampNumList(l))

\* clampNumList(...).slice(0, 6)
setMustInclude ==
    \E l \in MustIncludeInputs :
        SetSetting("mustInclude",
                   LET c == clampNumList(l) IN SubSeq(c, 1, Min(6, Len(c))))

setMustIncludeAnyOf ==
    \E l \in AnyOfInputs : SetSetting("mustIncludeAnyOf", clampNumList(l))

(* ------------------------------------------------------------------ *)
(* App.tsx: generateForSelectedGroup                                     *)
(* ------------------------------------------------------------------ *)
NoConstraints == [exclude |-> <<>>, mustInclude |-> <<>>, mustIncludeAnyOf |-> <<>>]

\* the locals of a call; IdleGen when no call is suspended
IdleGen ==
    [pc |-> "idle", n |-> 0, keys |-> {}, seedEnabled |-> FALSE, seed |-> <<>>,
     gid |-> Null, totalSestine |-> 0, baseSeedNum |-> <<0, 0>>, CHUNK |-> 0,
     produced |-> 0, nonceBase |-> 0, allGenerated |-> <<>>,
     constraints |-> NoConstraints, superstition |-> FALSE, reports |-> <<>>]

\* const CHUNK = n >= 5000 ? 250 : n >= 1000 ? 200 : n >= 200 ? 100 : 50
ChunkSize(n) ==
    IF n >= 100 * ChunkUnit THEN 5 * ChunkUnit
    ELSE IF n >= 20 * ChunkUnit THEN 4 * ChunkUnit
    ELSE IF n >= 4 * ChunkUnit THEN 2 * ChunkUnit
    ELSE ChunkUnit

\* the rngFactory closure of the chunk that starts at nonceBase
GenFactory(g) ==
    Factory(IF g.seedEnabled THEN "seedGen" ELSE "baseGen",
            g.seed \o SepStr \o g.gid \o SepStr \o DecStr(g.totalSestine) \o SepStr,
            g.baseSeedNum, g.nonceBase, <<>>, <<>>)

\* seeded fault: nonceBase is not advanced
NextNonceBase_Same(nonceBase, take) == nonceBase

\* nonceBase += take * 3
NextNonceBase(nonceBase, take) == nonceBase + take * 3

\* the locals after generateUniqueSestine returned r for a chunk of `take`
ChunkResult(g, take, r) ==
    IF r.err # "none"
    THEN [err |-> r.err, gen |-> [g EXCEPT !.keys = r.keys]]
    ELSE [err |-> "none",
          gen |-> [g EXCEPT !.keys = r.keys,
                            !.allGenerated = @ \o r.out,
                            !.produced = @ + Len(r.out),
                            !.nonceBase = NextNonceBase(@, take)]]

ChunkOf(g, take) ==
    ChunkResult(g, take,
                generateUniqueSestine(take, g.keys, GenFactory(g), g.constraints,
                                      Options(g.seedEnabled, g.seed, g.superstition)))

\* one pass of the body of "while (produced < n)" after the abort test:
\* the error thrown by generateUniqueSestine, or the locals after the chunk
RunChunk(g) == ChunkOf(g, Min(g.CHUNK, g.n - g.produced))

\* the finally block
GenFinally ==
    /\ isGenerating' = FALSE
    /\ genModal' = Null
    /\ genAbortRef' = FALSE
    /\ gen' = IdleGen

\* the locals of a call before its loop; reports holds the done values passed to
\* setGenModal, the first by setGenModal({ total: n, done: 0 })
GenLocals(n, seedEnabled, seed, gid, total, keys, constraints, superstition, baseRng) ==
    [pc |-> "running", n |-> n, keys |-> keys,
     seedEnabled |-> seedEnabled, seed |-> seed,
     gid |-> gid, totalSestine |-> total,
     baseSeedNum |-> RngNext(baseRng).v, CHUNK |-> ChunkSize(n),
     produced |-> 0, nonceBase |-> 0, allGenerated |-> <<>>,
     constraints |-> constraints, superstition |-> superstition,
     reports |-> <<0>>]

\* the locals captured from the render in which "Genera" was clicked
StartLocals(n, seedEnabled, seed, baseRng) ==
    GenLocals(n, seedEnabled, seed, selectedGroupId, totalSestine, globalKeys,
              Constraints(settings), settings.superstitionEnabled, baseRng)

BaseRng(seedEnabled, seed, gid, entropy) ==
    IF seedEnabled
    THEN rngFromSeed(seed \o SepStr \o gid \o SepStr \o BaseStr)
    ELSE mulberry32(entropy)

\* seeded fault: the seed is used without trim()
SeedOf_Raw(s) == IF s.seedEnabled THEN s.seedValue ELSE <<>>

SeedOf(s) == IF s.seedEnabled THEN Trim(s.seedValue) ELSE <<>>

\* seeded fault: the progress of the chunk is not reported
Reported_Stale(g) == [g EXCEPT !.pc = "sleeping"]

\* setGenModal({ total: n, done: produced }); await sleep(0)
Reported(g) == [g EXCEPT !.pc = "sleeping", !.reports = Append(@, g.produced)]

\* the state after the first chunk c: the call failed, or it sleeps
Started(n, c) ==
    IF c.err # "none"
    THEN /\ GenFinally
         /\ outcome' = Outcome("error", c.err, c.gen.reports, n)
    ELSE /\ gen' = Reported(c.gen)
         /\ isGenerating' = TRUE
         /\ genModal' = [total |-> n, done |-> c.gen.produced]
         /\ genAbortRef' = FALSE
         /\ outcome' = NoOutcome

\* the click on "Genera" up to the first await: the locals are captured, the flag
\* is cleared and the first chunk is allocated
generateStart(count, entropy) ==
    /\ HasSelectedGroup
    /\ ~isGenerating
    /\ totalSestine + Max(1, count) <= MaxSestine
    /\ Len(GroupById(selectedGroupId).events) < MaxEvents
    /\ Started(Max(1, count),
               RunChunk(StartLocals(Max(1, count), settings.seedEnabled,
                                    SeedOf(settings),
                                    BaseRng(settings.seedEnabled, SeedOf(settings),
                                            selectedGroupId, entropy))))
    /\ UNCHANGED <<groups, selectedGroupId, settings, nextGroup, fx>>

\* seeded fault: the commit goes to the group selected when it happens
Committed_Selected(gs, g) ==
    LET event == GenerateEvent(g.n)
        Add(x) == [x EXCEPT !.sestine = g.allGenerated \o @,
                            !.events = <<event>> \o @]
    IN  MapGroup(gs, selectedGroupId, Add)

\* the setState of the commit: the new combinations go before the old ones of the
\* group that was selected at the start, if it still exists
Committed(gs, g) ==
    LET event == GenerateEvent(g.n)
        Add(x) == [x EXCEPT !.sestine = g.allGenerated \o @,
                            !.events = <<event>> \o @]
    IN  MapGroup(gs, g.gid, Add)

\* seeded fault: the catch block commits what the earlier chunks produced
Resumed_Partial(c) ==
    IF c.err # "none"
    THEN /\ GenFinally
         /\ outcome' = Outcome("error", c.err, c.gen.reports, c.gen.n)
         /\ groups' = Committed(groups, c.gen)
    ELSE /\ gen' = Reported(c.gen)
         /\ genModal' = [total |-> c.gen.n, done |-> c.gen.produced]
         /\ outcome' = NoOutcome
         /\ UNCHANGED <<groups, isGenerating, genAbortRef>>

\* the state after a further chunk c
Resumed(c) ==
    IF c.err # "none"
    THEN /\ GenFinally
         /\ outcome' = Outcome("error", c.err, c.gen.reports, c.gen.n)
         /\ UNCHANGED groups
    ELSE /\ gen' = Reported(c.gen)
         /\ genModal' = [total |-> c.gen.n, done |-> c.gen.produced]
         /\ outcome' = NoOutcome
         /\ UNCHANGED <<groups, isGenerating, genAbortRef>>

\* seeded fault: the commit does not test genAbortRef
GenEnd_Commit(abort) ==
    /\ groups' = Committed(groups, gen)
    /\ GenFinally
    /\ outcome' = Outcome(IF abort THEN "cancelled" ELSE "committed", "none",
                          gen.reports, gen.n)

\* after the loop: if (!genAbortRef.current) setState(...); then the finally block
GenEnd(abort) ==
    IF ~abort
    THEN /\ groups' = Committed(groups, gen)
         /\ GenFinally
         /\ outcome' = Outcome("committed", "none", gen.reports, gen.n)
    ELSE /\ GenFinally
         /\ outcome' = Outcome("cancelled", "none", gen.reports, gen.n)
         /\ UNCHANGED groups

\* seeded fault: the flag is read before the commit only
generateResume_NoRead ==
    /\ gen.pc = "sleeping"
    /\ IF gen.produced < gen.n
       THEN Resumed(RunChunk(gen))
       ELSE GenEnd(genAbortRef)
    /\ UNCHANGED <<selectedGroupId, settings, nextGroup, fx>>

\* the call resumes after "await sleep(0)" and runs to the next await or to its end
generateResume ==
    /\ gen.pc = "sleeping"
    /\ IF gen.produced < gen.n /\ ~genAbortRef
       THEN Resumed(RunChunk(gen))
       ELSE GenEnd(genAbortRef)
    /\ UNCHANGED <<selectedGroupId, settings, nextGroup, fx>>

\* the button "Annulla" of the progress modal
cancelGeneration ==
    /\ genModal # Null
    /\ genAbortRef' = TRUE
    /\ outcome' = NoOutcome
    /\ UNCHANGED <<groups, selectedGroupId, settings, isGenerating, genModal, gen,
                   nextGroup, fx>>

(* ------------------------------------------------------------------ *)
(* App.tsx: regenerateNonFrozenInGroup                                   *)
(* ------------------------------------------------------------------ *)
MaxEntropy == 1         \* crypto values one regenerate is given, used in turn

EntropySeqs == UNION {[1..k -> EntropyValues] : k \in 1..MaxEntropy}

RegenFactory(seedEnabled, seed, gid, entropy) ==
    Factory(IF seedEnabled THEN "seedRegen" ELSE "cryptoRegen",
            seed \o SepStr \o gid \o SepStr \o RegenStr \o SepStr,
            <<0, 0>>, 0, entropy, <<>>)

\* seeded fault: the combinations to replace stay in the set
RegenKeys_All(allKeys, g) == allKeys

\* seeded fault: the set is built from the frozen combinations of the group alone
RegenKeys_Local(allKeys, g) ==
    {g.sestine[j].key : j \in {k \in 1..Len(g.sestine) : g.sestine[k].frozen}}

\* keys = new Set(globalKeys); for (const s of g.sestine) if (!s.frozen) keys.delete(s.key)
RegenKeys(allKeys, g) ==
    allKeys \ {g.sestine[j].key : j \in {k \in 1..Len(g.sestine) : ~g.sestine[k].frozen}}

FrozenOf(g) == SelectSeq(g.sestine, LAMBDA x : x.frozen)

\* seeded fault: the group becomes [...regenerated, ...frozen]
Regenerated_Tail(gs, g, frozen, out, event) ==
    LET Replaced(x) == [x EXCEPT !.sestine = out \o frozen,
                                 !.events = <<event>> \o @]
    IN  MapGroup(gs, g.id, Replaced)

\* setState: the group becomes [...frozen, ...regenerated] with a new event
Regenerated(gs, g, frozen, out, event) ==
    LET Replaced(x) == [x EXCEPT !.sestine = frozen \o out,
                                 !.events = <<event>> \o @]
    IN  MapGroup(gs, g.id, Replaced)

\* the handler once toRegenCount, the seed and the constraints are known; an error
\* thrown by generateUniqueSestine leaves the handler before its setState
RegenWith(g, toRegenCount, seedEnabled, seed, constraints, r) ==
    IF toRegenCount <= 0
    THEN /\ outcome' = Outcome("regenNone", "none", <<>>, 0)
         /\ UNCHANGED groups
    ELSE IF r.err # "none"
    THEN /\ outcome' = Outcome("regenError", r.err, <<>>, toRegenCount)
         /\ UNCHANGED groups
    ELSE /\ outcome' = Outcome("regenerated", "none", <<>>, toRegenCount)
         /\ groups' = Regenerated(groups, g, FrozenOf(g), r.out,
                                  GenerateEvent(toRegenCount))

RegenOf(g, toRegenCount, seedEnabled, seed, constraints, entropy) ==
    RegenWith(g, toRegenCount, seedEnabled, seed, constraints,
              generateUniqueSestine(
                  toRegenCount, RegenKeys(globalKeys, g),
                  RegenFactory(seedEnabled, seed, g.id, entropy), constraints,
                  Options(seedEnabled, seed, settings.superstitionEnabled)))

\* the button "Rigenera NON bloccate" of the selected group
regenerateNonFrozenInGroup(entropy) ==
    /\ HasSelectedGroup
    /\ ~isGenerating
    /\ Len(GroupById(selectedGroupId).sestine) > 0
    /\ Len(GroupById(selectedGroupId).events) < MaxEvents
    /\ RegenOf(GroupById(selectedGroupId),
               Len(GroupById(selectedGroupId).sestine)
                 - Len(FrozenOf(GroupById(selectedGroupId))),
               settings.seedEnabled, SeedOf(settings), Constraints(settings), entropy)
    /\ UNCHANGED <<selectedGroupId, settings, isGenerating, genModal, genAbortRef,
                   gen, nextGroup, fx>>

(* ------------------------------------------------------------------ *)
(* The application                                                       *)
(* ------------------------------------------------------------------ *)
NoCall == [fn |-> "none"]

Init ==
    /\ groups = <<>>
    /\ selectedGroupId = Null
    /\ settings = defaultSettings
    /\ isGenerating = FALSE
    /\ genModal = Null
    /\ genAbortRef = FALSE
    /\ gen = IdleGen
    /\ nextGroup = 0
    /\ outcome = NoOutcome
    /\ fx = NoCall

SelectedKeys ==
    IF HasSelectedGroup
    THEN {GroupById(selectedGroupId).sestine[j].key :
            j \in 1..Len(GroupById(selectedGroupId).sestine)}
    ELSE {}

Next ==
    \/ addGroup
    \/ deleteGroup
    \/ clearGroup
    \/ \E key \in SelectedKeys : toggleFreeze(key)
    \/ \E key \in SelectedKeys : removeSestina(key)
    \/ \E gid \in GroupIds : selectGroup(gid)
    \/ resetAll
    \/ setSeedEnabled
    \/ setMustInclude
    \/ \E count \in 0..MaxCount :
         \E entropy \in BaseEntropy :
           generateStart(count, entropy)
    \/ generateResume
    \/ cancelGeneration
    \/ \E e \in BaseEntropy : regenerateNonFrozenInGroup(<<e>>)

Spec == Init /\ [][Next]_vars

(* ------------------------------------------------------------------ *)
(* The library called directly: sestine.ts with any stream              *)
(* ------------------------------------------------------------------ *)
\* the 32-bit value of a stream for which rngInt(rng, 1, 90) is k
WordFor(k) == <<((k - 1) * H16 + 89) \div 90, 0>>

TapeOf(nums) == [i \in 1..Len(nums) |-> WordFor(nums[i])]

AllNums == [i \in 1..MAX_NUM |-> i]

TapeA == TapeOf(<<3, 1, 2, 6, 5, 4>>)
TapeB == TapeOf(<<1, 1, 2, 3, 4, 5, 7, 6>>)
TapeC == TapeOf(<<9>>)
TapeD == TapeOf(<<85, 86, 87, 88, 89>>) \o <<<<H16 - 1, H16 - 1>>>>

TapeE == TapeOf(<<90, 3, 88, 85, 85, 89, 86, 87>>)

LibTapes == {TapeA, TapeB, TapeC, TapeD, TapeE}

SixNums == <<42, 7, 14, 21, 28, 35>>

Cons(exclude, mustInclude, anyOf) ==
    [exclude |-> exclude, mustInclude |-> mustInclude, mustIncludeAnyOf |-> anyOf]

\* constraints every stream is tried with
PlainConstraints ==
    {NoConstraints,
     Cons(<<>>, SixNums, <<>>),
     Cons(<<>>, SixNums \o <<49>>, <<>>),
     Cons(<<>>, <<7>> \o SixNums, <<>>),
     Cons(<<1>>, <<>>, <<>>),
     Cons(<<90, 1>>, <<5, 2>>, <<>>),
     Cons(AllNums, <<>>, <<>>),
     Cons(<<7>>, <<7>>, <<>>),
     Cons(<<>>, <<91>>, <<>>),
     Cons(<<7>>, SixNums, <<>>)}

\* constraints with mustIncludeAnyOf, tried with the streams that repeat
AnyOfConstraints ==
    {Cons(<<>>, <<>>, <<6>>), Cons(<<>>, <<>>, <<90, 6>>), Cons(<<2>>, <<>>, <<2>>),
     Cons(<<>>, SixNums, <<1>>), Cons(<<>>, SixNums, <<1, 7>>)}

\* exclude = 1..84: only 85..90 are left; tried with the streams that repeat
NarrowConstraints == {Cons([i \in 1..84 |-> i], <<>>, <<>>)}

LibSeeds == {<<65>>, <<66>>}

SampleCalls ==
    ({TapeRng(t) : t \in LibTapes}
        \X (PlainConstraints \cup AnyOfConstraints \cup NarrowConstraints))
    \cup (({mulberry32(e) : e \in EntropyValues} \cup {rngFromSeed(x) : x \in LibSeeds})
          \X PlainConstraints)

\* a call of generateRandomSestinaWithConstraints and what it returned or threw
CallSample ==
    /\ fx = NoCall
    /\ \E call \in SampleCalls :
         fx' = [fn |-> "sample", rng |-> call[1], constraints |-> call[2],
                result |-> generateRandomSestinaWithConstraints(call[1], call[2])]
    /\ UNCHANGED appVars

KeyA == sestinaKey(<<1, 2, 3, 4, 5, 6>>)
KeyB == sestinaKey(<<1, 2, 3, 4, 5, 7>>)

LibKeySets == {{}, {KeyA}, {KeyA, KeyB}}

TapeFactory(tapes) == Factory("tape", <<>>, <<0, 0>>, 0, <<>>, tapes)

LibFactories ==
    {TapeFactory(<<TapeA>>), TapeFactory(<<TapeA, TapeB>>),
     TapeFactory(<<TapeB, TapeA, TapeD>>),
     Factory("seedGen", <<65>> \o SepStr \o newId(1) \o SepStr \o DecStr(0) \o SepStr,
             <<0, 0>>, 0, <<>>, <<>>),
     Factory("baseGen", <<>>, <<0, 0>>, 3, <<>>, <<>>),
     Factory("seedRegen", <<65>> \o SepStr \o newId(1) \o SepStr \o RegenStr \o SepStr,
             <<0, 0>>, 0, <<>>, <<>>),
     Factory("cryptoRegen", <<>>, <<0, 0>>, 0, <<<<0, 0>>, <<0, 1>>>>, <<>>)}

AllocConstraints ==
    {NoConstraints, Cons(<<>>, SixNums, <<>>), Cons(<<>>, SixNums \o <<49>>, <<>>),
     Cons(<<1>>, <<>>, <<>>)}

\* a call of generateUniqueSestine and what it returned or threw
CallAllocate ==
    /\ fx = NoCall
    /\ \E count \in 0..MaxCount, keys \in LibKeySets, f \in LibFactories,
          c \in AllocConstraints, seedOn \in BOOLEAN :
         fx' = [fn |-> "allocate", count |-> count, existingKeys |-> keys,
                rngFactory |-> f, constraints |-> c,
                result |-> generateUniqueSestine(count, keys, f, c,
                                                 Options(seedOn, <<65>>, FALSE))]
    /\ UNCHANGED appVars

NextLib == CallSample \/ CallAllocate

SpecLib == Init /\ [][NextLib]_vars

(* ------------------------------------------------------------------ *)
(* Calls run to their end: the chunks of one call, without the sleeps   *)
(* ------------------------------------------------------------------ *)
RECURSIVE RunAll(_)
RunRest(c) == IF c.err # "none" THEN c ELSE RunAll(c.gen)

\* the loop "while (produced < n)" when "Annulla" is never clicked
RunAll(g) ==
    IF g.produced < g.n THEN RunRest(RunChunk(g)) ELSE [err |-> "none", gen |-> g]

(* ------------------------------------------------------------------ *)
(* Regeneration, from two groups that hold combinations                 *)
(* ------------------------------------------------------------------ *)
EmptyGroup(k) == [id |-> newId(k), sestine |-> <<>>, events |-> <<>>]

\* a first group is created and one combination generated into it with six
\* mandatory numbers
FirstLocals ==
    GenLocals(1, FALSE, <<>>, newId(1), 0, {}, Cons(<<>>, SortAsc(SixNums), <<>>),
              FALSE, mulberry32(<<0, 0>>))

FirstGroups == Committed(<<EmptyGroup(1)>>, RunAll(FirstLocals).gen)

\* a second group is created and three combinations generated into it with no
\* constraints
SecondLocals ==
    GenLocals(3, FALSE, <<>>, newId(2), 1, {FirstGroups[1].sestine[1].key},
              NoConstraints, FALSE, mulberry32(<<0, 0>>))

SecondGroups == Committed(<<EmptyGroup(2)>> \o FirstGroups, RunAll(SecondLocals).gen)

InitRegen ==
    /\ groups = SecondGroups
    /\ selectedGroupId = newId(2)
    /\ settings = defaultSettings
    /\ isGenerating = FALSE
    /\ genModal = Null
    /\ genAbortRef = FALSE
    /\ gen = IdleGen
    /\ nextGroup = 2
    /\ outcome = NoOutcome
    /\ fx = NoCall

NextRegen ==
    \/ \E gid \in GroupIds : selectGroup(gid)
    \/ \E key \in SelectedKeys : toggleFreeze(key)
    \/ setSeedEnabled
    \/ setSeedValue
    \/ setExclude
    \/ setMustInclude
    \/ setMustIncludeAnyOf
    \/ \E entropy \in EntropySeqs : regenerateNonFrozenInGroup(entropy)

SpecRegen == InitRegen /\ [][NextRegen]_vars

(* ------------------------------------------------------------------ *)
(* Two seeded calls of generateForSelectedGroup side by side            *)
(* ------------------------------------------------------------------ *)
ReproSeeds == {<<65>>, <<65, 32>>, <<66>>}            \* "A", "A ", "B"

\* the key of the first combination of seed "A" in the first group of an empty app
ReproKey ==
    RunAll(GenLocals(1, TRUE, <<65>>, newId(1), 0, {}, NoConstraints, FALSE,
                     BaseRng(TRUE, <<65>>, newId(1), <<0, 0>>))).gen.allGenerated[1].key

\* what a call reads when "Genera" is clicked with the seed on
RunParams ==
    [seedValue : ReproSeeds, gid : {newId(1), newId(2)}, total : {0, 1},
     keys : {{}, {ReproKey}}, count : 1..MaxCount,
     constraints : {NoConstraints, Cons(<<>>, SortAsc(SixNums), <<>>)}]

SeededSettings(seedValue) == [defaultSettings EXCEPT !.seedEnabled = TRUE,
                                                     !.seedValue = seedValue]

ReproLocals(p, entropy) ==
    GenLocals(Max(1, p.count), TRUE, SeedOf(SeededSettings(p.seedValue)), p.gid,
              p.total, p.keys, p.constraints, FALSE,
              BaseRng(TRUE, SeedOf(SeededSettings(p.seedValue)), p.gid, entropy))

RunFields == {"seedValue", "gid", "total", "keys", "count", "constraints"}

\* the calls that differ from a in at most one of the things a call reads
Variants(a) == {b \in RunParams : Cardinality({f \in RunFields : a[f] # b[f]}) <= 1}

\* the two calls run to their end; they are given different entropy
Replay ==
    /\ fx = NoCall
    /\ \E a \in RunParams :
         \E b \in Variants(a) :
           fx' = [fn |-> "replay", a |-> a, b |-> b,
                  ra |-> RunAll(ReproLocals(a, <<0, 0>>)),
                  rb |-> RunAll(ReproLocals(b, <<H16 - 1, H16 - 1>>))]
    /\ UNCHANGED appVars

NextRepro == Replay

SpecRepro == Init /\ [][NextRepro]_vars

(* ------------------------------------------------------------------ *)
(* generateForSelectedGroup: the split of the count into chunks, with the  *)
(* numbers of the code                                                    *)
(* ------------------------------------------------------------------ *)
\* const CHUNK = n >= 5000 ? 250 : n >= 1000 ? 200 : n >= 200 ? 100 : 50
CHUNK(n) ==
    IF n >= 5000 THEN 250
    ELSE IF n >= 1000 THEN 200
    ELSE IF n >= 200 THEN 100
    ELSE 50

\* seeded fault: a final chunk of the full size, whatever is left to produce
TakeOf_Full(chunk, n, produced) == chunk

\* const take = Math.min(CHUNK, n - produced)
TakeOf(chunk, n, produced) == Min(chunk, n - produced)

RECURSIVE TakeSizes(_, _, _)
\* the values of take over "while (produced < n)", every chunk returning take
\* combinations: produced += chunk.length
TakeSizes(chunk, n, produced) ==
    IF produced >= n THEN <<>>
    ELSE <<TakeOf(chunk, n, produced)>>
         \o TakeSizes(chunk, n, produced + TakeOf(chunk, n, produced))

\* Math.max(1, Math.floor(countToGenerate || 1)), the count given in tenths:
\* 0 (and NaN) is falsy and becomes 1, Math.floor rounds down
NormalCount(tenths) == IF tenths = 0 THEN 1 ELSE Max(1, tenths \div 10)

\* counts the field can hold: negative, zero, fractional, and whole numbers
\* around the thresholds of CHUNK
WholeCounts ==
    {1, 2, 49, 50, 51, 99, 100, 101, 149, 150, 151, 199, 200, 201, 299, 300, 301,
     999, 1000, 1001, 1199, 1200, 1201, 4999, 5000, 5001, 5249, 5250, 5251}

CountTenths == {-10, -5, 0, 5, 15, 509, 1999, 2001} \cup {10 * k : k \in WholeCounts}

\* the chunks of one call of generateForSelectedGroup that is not cancelled
PlanCall ==
    /\ fx = NoCall
    /\ \E tenths \in CountTenths :
         fx' = [fn |-> "plan", tenths |-> tenths, n |-> NormalCount(tenths),
                chunks |-> TakeSizes(CHUNK(NormalCount(tenths)), NormalCount(tenths), 0)]
    /\ UNCHANGED appVars

NextChunk ==
    \/ PlanCall
    \/ addGroup
    \/ clearGroup
    \/ \E count \in 0..MaxCount :
         \E entropy \in BaseEntropy :
           generateStart(count, entropy)
    \/ generateResume

SpecChunk == Init /\ [][NextChunk]_vars

(* ------------------------------------------------------------------ *)
(* App.tsx: nCk, singleTicketExactMatchProb                               *)
(* ------------------------------------------------------------------ *)
\* (res * m) / i where i divides res * m, as it does at every step of nCk: the
\* product is a whole number below 2^53, so the double is exact; computed here
\* without forming the product
MulDiv(res, m, i) == (res \div i) * m + ((res % i) * m) \div i

RECURSIVE nCkLoop(_, _, _, _)
\* for (let i = 1; i <= k; i++) res = (res * (n - (k - i))) / i
nCkLoop(n, k, i, res) ==
    IF i > k THEN res ELSE nCkLoop(n, k, i + 1, MulDiv(res, n - (k - i), i))

\* seeded fault: k = n is refused too
nCk_Strict(n, k) ==
    IF k < 0 \/ k >= n THEN 0 ELSE nCkLoop(n, Min(k, n - k), 1, 1)

nCk(n, k) ==
    IF k < 0 \/ k > n THEN 0 ELSE nCkLoop(n, Min(k, n - k), 1, 1)

\* a probability as the pair <<numerator, denominator>>, not reduced
Prob(num, den) == <<num, den>>

\* (nCk(6, r) * nCk(84, 6 - r)) / nCk(90, 6)
singleTicketExactMatchProb(r) == Prob(nCk(6, r) * nCk(84, 6 - r), nCk(90, 6))

\* acc += pExact[r], both over the same denominator
AddProb(acc, p) == Prob(acc[1] + p[1], p[2])

RECURSIVE CdfFrom(_, _, _)
\* the loop "for (let r = 0; r <= 6; r++) { acc += pExact[r]; cdf[r] = acc; }";
\* pExact[r + 1] here is pExact[r] of the code
CdfFrom(pExact, r, acc) ==
    IF r > 6 THEN <<>>
    ELSE <<AddProb(acc, pExact[r + 1])>> \o CdfFrom(pExact, r + 1, AddProb(acc, pExact[r + 1]))

\* Array.from({ length: 7 }, (_, r) => singleTicketExactMatchProb(r))
PExact == [i \in 1..7 |-> singleTicketExactMatchProb(i - 1)]

MaxN == 12              \* largest n of the calls of nCk tried on their own

\* a call of nCk
CallNCk ==
    /\ fx = NoCall
    /\ \E n \in 0..MaxN, k \in (0 - 1)..(MaxN + 1) :
         fx' = [fn |-> "nCk", n |-> n, k |-> k, result |-> nCk(n, k)]
    /\ UNCHANGED appVars

\* a call of singleTicketExactMatchProb, and the sum the caller makes of the
\* seven values
CallExact ==
    /\ fx = NoCall
    /\ \E r \in 0..7 :
         fx' = [fn |-> "exact", r |-> r, result |-> singleTicketExactMatchProb(r),
                cdf |-> CdfFrom(PExact, 0, Prob(0, 1))]
    /\ UNCHANGED appVars

(* ------------------------------------------------------------------ *)
(* Whole numbers of any size, for the powers of atLeastDistribution: the   *)
(* digits in base 10000, the lowest first, <<>> for 0                      *)
(* ------------------------------------------------------------------ *)
BigBase == 100 * 100

RECURSIVE BigOf(_)
BigOf(n) == IF n = 0 THEN <<>> ELSE <<n % BigBase>> \o BigOf(n \div BigBase)

RECURSIVE BigTrim(_)
\* without the zeros above the highest digit
BigTrim(a) ==
    IF a # <<>> /\ a[Len(a)] = 0 THEN BigTrim(SubSeq(a, 1, Len(a) - 1)) ELSE a

RECURSIVE BigAddFrom(_, _, _)
BigAddFrom(a, b, carry) ==
    IF a = <<>> /\ b = <<>> THEN (IF carry = 0 THEN <<>> ELSE <<carry>>)
    ELSE LET t == (IF a = <<>> THEN 0 ELSE Head(a))
                  + (IF b = <<>> THEN 0 ELSE Head(b)) + carry
         IN  <<t % BigBase>>
             \o BigAddFrom(IF a = <<>> THEN a ELSE Tail(a),
                           IF b = <<>> THEN b ELSE Tail(b), t \div BigBase)

BigAdd(a, b) == BigTrim(BigAddFrom(a, b, 0))

RECURSIVE BigSubFrom(_, _, _)
\* a - b - borrow for a >= b
BigSubFrom(a, b, borrow) ==
    IF a = <<>> THEN <<>>
    ELSE LET t == Head(a) - (IF b = <<>> THEN 0 ELSE Head(b)) - borrow
         IN  <<(t + BigBase) % BigBase>>
             \o BigSubFrom(Tail(a), IF b = <<>> THEN b ELSE Tail(b),
                           IF t < 0 THEN 1 ELSE 0)

BigSub(a, b) == BigTrim(BigSubFrom(a, b, 0))

RECURSIVE BigMulDigit(_, _, _)
BigMulDigit(a, d, carry) ==
    IF a = <<>> THEN (IF carry = 0 THEN <<>> ELSE <<carry>>)
    ELSE <<(Head(a) * d + carry) % BigBase>>
         \o BigMulDigit(Tail(a), d, (Head(a) * d + carry) \div BigBase)

RECURSIVE BigMul(_, _)
BigMul(a, b) ==
    IF b = <<>> THEN <<>>
    ELSE BigAdd(BigMulDigit(a, Head(b), 0), <<0>> \o BigMul(a, Tail(b)))

RECURSIVE BigPow(_, _)
BigPow(a, k) == IF k = 0 THEN <<1>> ELSE BigMul(a, BigPow(a, k - 1))

RECURSIVE BigLessFrom(_, _, _)
\* a < b for two numbers of the same length, from digit i down
BigLessFrom(a, b, i) ==
    IF i = 0 THEN FALSE
    ELSE IF a[i] # b[i] THEN a[i] < b[i]
    ELSE BigLessFrom(a, b, i - 1)

BigLess(a, b) ==
    IF Len(a) # Len(b) THEN Len(a) < Len(b) ELSE BigLessFrom(a, b, Len(a))

(* ------------------------------------------------------------------ *)
(* App.tsx: atLeastDistribution                                          *)
(* ------------------------------------------------------------------ *)
\* Math.pow(c, k) for a probability c and a whole k >= 0, exactly
PowProb(c, k) == Prob(BigPow(BigOf(c[1]), k), BigPow(BigOf(c[2]), k))

\* 1 - q
OneMinus(q) == Prob(BigSub(q[2], q[1]), q[2])

\* seeded fault: the running sum up to m, not up to m - 1
CdfBelow_Same(cdf, m) == cdf[m + 1]

\* cdf[m - 1]; cdf[1] here is cdf[0] of the code
CdfBelow(cdf, m) == cdf[m]

RECURSIVE OutFrom(_, _, _)
\* for (let m = 1; m <= 6; m++) out.push({ m, p: 1 - Math.pow(cdf[m - 1], kTickets) })
OutFrom(cdf, kTickets, m) ==
    IF m > 6 THEN <<>>
    ELSE <<[m |-> m, p |-> OneMinus(PowProb(CdfBelow(cdf, m), kTickets))]>>
         \o OutFrom(cdf, kTickets, m + 1)

RECURSIVE InsertByM(_, _)
InsertByM(s, x) ==
    IF s = <<>> THEN <<x>>
    ELSE IF Head(s).m >= x.m THEN <<Head(s)>> \o InsertByM(Tail(s), x)
    ELSE <<x>> \o s

RECURSIVE SortByM(_, _, _)
\* out.sort((a, b) => b.m - a.m): the larger m first
SortByM(acc, s, i) ==
    IF i > Len(s) THEN acc ELSE SortByM(InsertByM(acc, s[i]), s, i + 1)

atLeastDistribution(kTickets) ==
    SortByM(<<>>, OutFrom(CdfFrom(PExact, 0, Prob(0, 1)), kTickets, 1), 1)

MaxTickets == 3         \* largest number of tickets tried

\* a call of atLeastDistribution
CallAtLeast ==
    /\ fx = NoCall
    /\ \E k \in 0..MaxTickets :
         fx' = [fn |-> "atLeast", kTickets |-> k, result |-> atLeastDistribution(k)]
    /\ UNCHANGED appVars

NextOdds == CallNCk \/ CallExact \/ CallAtLeast

SpecOdds == Init /\ [][NextOdds]_vars

(* ------------------------------------------------------------------ *)
(* App.tsx: validateAgainstGroup                                         *)
(* ------------------------------------------------------------------ *)
\* undefined, for the jolly and the superstar: falsy, and no number of a list
Undefined == 0

estimateTicketWinEUR(hits, jollyHit, jackpotEuro) ==
    IF hits = 6 THEN jackpotEuro
    ELSE IF hits = 5 /\ jollyHit THEN 620000
    ELSE IF hits = 5 THEN 32000
    ELSE IF hits = 4 THEN 300
    ELSE IF hits = 3 THEN 25
    ELSE IF hits = 2 THEN 5
    ELSE 0

\* the text of a field is the list of the numbers written in it
ParsedSix(nums) == [ok |-> Len(nums) = 6, nums |-> nums]

parseSixUnique(input) == ParsedSix(clampNumList(input))

FirstOrUndefined(nums) == IF Len(nums) = 0 THEN Undefined ELSE nums[1]

parseOptionalOne(input) == FirstOrUndefined(clampNumList(input))

\* s.nums.filter((n) => drawSet.has(n))
HitNums(nums, draw) == SelectSeq(nums, LAMBDA n : Includes(draw, n))

\* one row of the result
ValidationRow(s, draw, jolly, superstar) ==
    [key |-> s.key, nums |-> s.nums,
     hits |-> Len(HitNums(s.nums, draw)), hitNums |-> HitNums(s.nums, draw),
     frozen |-> s.frozen,
     jollyHit |-> IF jolly # Undefined THEN Includes(s.nums, jolly) ELSE FALSE,
     superstarHit |-> IF superstar # Undefined THEN Includes(s.nums, superstar) ELSE FALSE]

\* seeded fault: five hits count as "5+1" whether the jolly is hit or not
PrizeOf_NoJolly(r) ==
    IF r.hits = 6 THEN "6"
    ELSE IF r.hits = 5 THEN "5+1"
    ELSE IF r.hits = 4 THEN "4"
    ELSE IF r.hits = 3 THEN "3"
    ELSE IF r.hits = 2 THEN "2"
    ELSE "other"

\* the counter of prizeCounts the row adds to
PrizeOf(r) ==
    IF r.hits = 6 THEN "6"
    ELSE IF r.hits = 5 /\ r.jollyHit THEN "5+1"
    ELSE IF r.hits = 5 THEN "5"
    ELSE IF r.hits = 4 THEN "4"
    ELSE IF r.hits = 3 THEN "3"
    ELSE IF r.hits = 2 THEN "2"
    ELSE "other"

PrizeLabels == {"6", "5+1", "5", "4", "3", "2", "other"}

RECURSIVE PrizeLoop(_, _, _, _, _)
\* for (const r of rows) { estimatedTotalEuro += eur; prizeCounts[...]++ }
PrizeLoop(rows, i, jackpotEuro, prizeCounts, estimatedTotalEuro) ==
    IF i > Len(rows)
    THEN [prizeCounts |-> prizeCounts, estimatedTotalEuro |-> estimatedTotalEuro]
    ELSE PrizeLoop(rows, i + 1, jackpotEuro,
                   [prizeCounts EXCEPT ![PrizeOf(rows[i])] = @ + 1],
                   estimatedTotalEuro
                     + estimateTicketWinEUR(rows[i].hits, rows[i].jollyHit, jackpotEuro))

RECURSIVE CountsLoop(_, _, _)
\* for (const r of rows) counts[r.hits] = (counts[r.hits] ?? 0) + 1
CountsLoop(rows, i, counts) ==
    IF i > Len(rows) THEN counts
    ELSE CountsLoop(rows, i + 1, [counts EXCEPT ![rows[i].hits] = @ + 1])

RECURSIVE SeqLess(_, _)
\* a before b for two keys, character by character
SeqLess(a, b) ==
    IF b = <<>> THEN FALSE
    ELSE IF a = <<>> THEN TRUE
    ELSE IF Head(a) # Head(b) THEN Head(a) < Head(b)
    ELSE SeqLess(Tail(a), Tail(b))

\* b.hits - a.hits || Number(b.frozen) - Number(a.frozen) || a.key.localeCompare(b.key)
\* is negative: a goes before b. The keys hold digits and "-" only; their
\* order is taken by character code.
RowBefore(a, b) ==
    IF a.hits # b.hits THEN a.hits > b.hits
    ELSE IF a.frozen # b.frozen THEN a.frozen
    ELSE SeqLess(a.key, b.key)

RECURSIVE InsertRow(_, _)
InsertRow(s, x) ==
    IF s = <<>> THEN <<x>>
    ELSE IF RowBefore(x, Head(s)) THEN <<x>> \o s
    ELSE <<Head(s)>> \o InsertRow(Tail(s), x)

RECURSIVE SortRows(_, _, _)
SortRows(acc, rows, i) ==
    IF i > Len(rows) THEN acc ELSE SortRows(InsertRow(acc, rows[i]), rows, i + 1)

\* the ValidationResult built from the rows in the order of the group
ValidationOf(rows, tally, draw, jolly, superstar) ==
    [ok |-> TRUE, draw |-> draw, jolly |-> jolly, superstar |-> superstar,
     counts |-> CountsLoop(rows, 1, [h \in 0..6 |-> 0]),
     rows |-> SortRows(<<>>, rows, 1),
     prizeCounts |-> tally.prizeCounts,
     estimatedTotalEuro |-> tally.estimatedTotalEuro]

ValidationRows(rows, draw, jolly, superstar, jackpotEuro) ==
    ValidationOf(rows,
                 PrizeLoop(rows, 1, jackpotEuro, [t \in PrizeLabels |-> 0], 0),
                 draw, jolly, superstar)

\* the result for the combinations sestine, a draw of six numbers, the jolly
\* and the superstar
Validation(sestine, draw, jolly, superstar, jackpotEuro) ==
    ValidationRows([j \in 1..Len(sestine) |->
                      ValidationRow(sestine[j], draw, jolly, superstar)],
                   draw, jolly, superstar, jackpotEuro)

ValidateEvent == [type |-> "validate", count |-> 0]

\* validationResult before the click, with the combinations and the jackpot
\* it was computed from; Null when there is none
PrevValidation ==
    IF fx.fn = "validate" THEN fx
    ELSE [result |-> Null, sestine |-> <<>>, jackpotEuro |-> 0]

\* seeded fault: the error also clears the result shown
ValidationFailed_Clear(drawInput, count) ==
    /\ fx' = [fn |-> "validate", ok |-> FALSE, drawInput |-> drawInput,
              error |-> [count |-> count],
              result |-> Null, sestine |-> <<>>, jackpotEuro |-> 0]
    /\ UNCHANGED groups

\* setValidationError(parsed.error); return
ValidationFailed(drawInput, count) ==
    /\ fx' = [fn |-> "validate", ok |-> FALSE, drawInput |-> drawInput,
              error |-> [count |-> count],
              result |-> PrevValidation.result, sestine |-> PrevValidation.sestine,
              jackpotEuro |-> PrevValidation.jackpotEuro]
    /\ UNCHANGED groups

\* with the draw parsed: the error, or the result and the event of the group;
\* fx holds validationError, validationResult and the input of the last click
Validated(drawInput, parsed, sestine, jolly, superstar, jackpotEuro) ==
    IF ~parsed.ok
    THEN ValidationFailed(drawInput, Len(parsed.nums))
    ELSE /\ fx' = [fn |-> "validate", ok |-> TRUE, drawInput |-> drawInput,
                   error |-> Null, sestine |-> sestine,
                   jackpotEuro |-> jackpotEuro,
                   result |-> Validation(sestine, parsed.nums, jolly, superstar,
                                         jackpotEuro)]
         /\ LET Add(g) == [g EXCEPT !.events = <<ValidateEvent>> \o @]
            IN  groups' = MapGroup(groups, selectedGroupId, Add)

\* the click on "Valida"
validateAgainstGroup(drawInput, jollyInput, superstarInput, jackpotEuro) ==
    /\ HasSelectedGroup
    /\ Len(GroupById(selectedGroupId).events) < MaxEvents
    /\ Validated(drawInput, parseSixUnique(drawInput),
                 GroupById(selectedGroupId).sestine,
                 parseOptionalOne(jollyInput), parseOptionalOne(superstarInput),
                 jackpotEuro)
    /\ outcome' = NoOutcome
    /\ UNCHANGED <<selectedGroupId, settings, isGenerating, genModal, genAbortRef,
                   gen, nextGroup>>

\* combinations a group can hold, by their matches with the draw 1..6
ValNums ==
    {<<1, 2, 3, 4, 5, 6>>, <<1, 2, 3, 4, 5, 90>>, <<1, 2, 3, 4, 5, 7>>,
     <<1, 2, 3, 4, 80, 81>>, <<1, 2, 3, 70, 80, 81>>, <<1, 2, 60, 70, 80, 81>>,
     <<1, 50, 60, 70, 80, 81>>, <<40, 50, 60, 70, 80, 81>>}

\* the ones two combinations of a group are taken from
ValPairNums ==
    {<<1, 2, 3, 4, 5, 6>>, <<1, 2, 3, 4, 5, 90>>, <<1, 2, 3, 4, 5, 7>>,
     <<40, 50, 60, 70, 80, 81>>}

ValSestina(nums) ==
    NewSestina(nums, sestinaKey(nums), 0, 0, Options(FALSE, <<>>, FALSE))

\* the lists of at most two different combinations
ValLists ==
    {<<>>} \cup {<<ValSestina(a)>> : a \in ValNums}
           \cup {<<ValSestina(p[1]), ValSestina(p[2])>> :
                     p \in {q \in ValPairNums \X ValPairNums : q[1] # q[2]}}

DrawInputs ==
    {<<6, 5, 4, 3, 2, 1>>, <<1, 2, 3, 4, 5, 6, 6, 0, 91>>, <<1, 2, 3, 4, 5>>,
     <<81, 80, 70, 60, 50, 40>>, <<1, 2, 3, 4, 5, 6, 7>>}

JollyInputs == {<<>>, <<90>>, <<5, 90>>}

SuperstarInputs == {<<>>, <<90>>}

JackpotInputs == {0, 50000000}

\* a second group, never selected, with one combination of its own
OtherGroup ==
    [id |-> newId(2), sestine |-> <<ValSestina(<<10, 20, 30, 41, 51, 61>>)>>,
     events |-> <<>>]

InitValidate ==
    /\ groups \in {<<[id |-> newId(1), sestine |-> l, events |-> <<>>], OtherGroup>> :
                      l \in ValLists}
    /\ selectedGroupId = newId(1)
    /\ settings = defaultSettings
    /\ isGenerating = FALSE
    /\ genModal = Null
    /\ genAbortRef = FALSE
    /\ gen = IdleGen
    /\ nextGroup = 2
    /\ outcome = NoOutcome
    /\ fx = NoCall

NextValidate ==
    \/ \E key \in SelectedKeys : toggleFreeze(key)
    \/ \E d \in DrawInputs, j \in JollyInputs, s \in SuperstarInputs, e \in JackpotInputs :
         validateAgainstGroup(d, j, s, e)

SpecValidate == InitValidate /\ [][NextValidate]_vars

(* ------------------------------------------------------------------ *)
(* generateForSelectedGroup run to its end over keys that collide        *)
(* ------------------------------------------------------------------ *)
\* five mandatory numbers: the stream gives the sixth
FiveFixed == Cons(<<>>, <<1, 2, 3, 4, 5>>, <<>>)

\* what a call reads when "Genera" is clicked; stored is the number of
\* combinations already stored that the first streams of the call give again
NonceParams ==
    [seedEnabled : BOOLEAN, seedValue : {<<65>>, <<66>>}, gid : {newId(1), newId(2)},
     total : {3, 4}, stored : 0..3, count : 1..MaxCount,
     constraints : {NoConstraints, FiveFixed}]

\* the locals of the call of p that finds the keys stored
NonceLocals(p, keys) ==
    GenLocals(p.count, p.seedEnabled,
              IF p.seedEnabled THEN Trim(p.seedValue) ELSE <<>>,
              p.gid, p.total, keys, p.constraints, FALSE,
              BaseRng(p.seedEnabled, Trim(p.seedValue), p.gid, <<0, 0>>))

\* the combination the call of p samples at the effective nonce nn
NonceSample(p, nn) ==
    generateRandomSestinaWithConstraints(
        RngFactory(GenFactory(NonceLocals(p, {})), nn, 0), p.constraints)

\* the keys of the combinations the effective nonces 0..stored-1 give
StoredKeys(p) == {sestinaKey(NonceSample(p, nn).nums) : nn \in 0..(p.stored - 1)}

\* a whole call, "Annulla" never clicked
RunCall ==
    /\ fx = NoCall
    /\ \E p \in NonceParams :
         fx' = [fn |-> "run", p |-> p, keys |-> StoredKeys(p),
                r |-> RunAll(NonceLocals(p, StoredKeys(p)))]
    /\ UNCHANGED appVars

NextNonce == RunCall

SpecNonce == Init /\ [][NextNonce]_vars

(* ------------------------------------------------------------------ *)
(* sestinaKey on pairs of lists, and the keys the app stores             *)
(* ------------------------------------------------------------------ *)
\* numbers whose decimal texts share digits
KeyPool == {1, 2, 9, 10, 11, 12, 21, 90}

\* the ascending lists of six numbers of the pool
KeyLists == {l \in [1..6 -> KeyPool] : \A i \in 1..5 : l[i] < l[i + 1]}

\* a list as it is, reversed, and turned by two places
Orders(l) == {l, [i \in 1..6 |-> l[7 - i]], [i \in 1..6 |-> l[((i + 1) % 6) + 1]]}

KeyInputs == UNION {Orders(l) : l \in KeyLists}

\* the numbers of the stored combinations
StoredNums ==
    UNION {{groups[i].sestine[j].nums : j \in 1..Len(groups[i].sestine)} :
             i \in 1..Len(groups)}

\* the pairs of lists asked: any two lists while nothing is stored, then a
\* stored combination with its own numbers reordered or with another stored one
KeyPairs ==
    IF StoredNums = {} THEN KeyInputs \X KeyInputs
    ELSE UNION {{<<a, b>> : a \in Orders(b) \cup StoredNums} : b \in StoredNums}

\* two calls of sestinaKey
CallKey ==
    /\ fx = NoCall
    /\ \E p \in KeyPairs :
         fx' = [fn |-> "key", a |-> p[1], b |-> p[2],
                ka |-> sestinaKey(p[1]), kb |-> sestinaKey(p[2])]
    /\ UNCHANGED appVars

\* the app generates and regenerates; no key is asked for meanwhile
NextKeys ==
    \/ CallKey
    \/ fx = NoCall /\ addGroup
    \/ fx = NoCall /\ setSeedEnabled
    \/ fx = NoCall /\ \E key \in SelectedKeys : toggleFreeze(key)
    \/ fx = NoCall /\ \E count \in 0..MaxCount : \E entropy \in BaseEntropy :
                        generateStart(count, entropy)
    \/ fx = NoCall /\ generateResume
    \/ fx = NoCall /\ \E e \in EntropyValues : regenerateNonFrozenInGroup(<<e>>)

SpecKeys == Init /\ [][NextKeys]_vars

(* ------------------------------------------------------------------ *)
(* App.tsx: nCk in the arithmetic of the language (IEEE-754 doubles)     *)
(* ------------------------------------------------------------------ *)
\* A natural number of any size is the sequence of its digits in base 2^13,
\* the lowest first, the highest not 0; zero is <<>>. A double is [m, e], the
\* value m * 2^e with m odd and below 2^MantBits, or [<<>>, 0] for zero. The
\* values of nCk are far from the ends of the exponent range. nCk above is
\* nCkDouble wherever every product of the loop is below 2^MantBits and every
\* division exact, as in the calls the app makes.
MantBits == 53

LimbBits == 12 + 1

LimbBase == Pow2(LimbBits)

RECURSIVE LimbTrim(_)
LimbTrim(a) ==
    IF a # <<>> /\ a[Len(a)] = 0 THEN LimbTrim(SubSeq(a, 1, Len(a) - 1)) ELSE a

\* the bits of a, the lowest first, up to the top of its highest digit
Bits(a) ==
    [i \in 1..(LimbBits * Len(a)) |->
        (a[((i - 1) \div LimbBits) + 1] \div Pow2((i - 1) % LimbBits)) % 2]

\* the number of bits of a up to its highest 1
BitLen(a) ==
    IF a = <<>> THEN 0
    ELSE LimbBits * (Len(a) - 1)
           + (CHOOSE b \in 1..LimbBits : Pow2(b - 1) <= a[Len(a)] /\ a[Len(a)] < Pow2(b))

RECURSIVE BitsVal(_, _, _)
\* the value of the bits b[from], b[from + 1], ... of one digit
BitsVal(b, from, t) ==
    IF t >= LimbBits \/ from + t > Len(b) THEN 0
    ELSE b[from + t] * Pow2(t) + BitsVal(b, from, t + 1)

\* the number whose bits are b
FromBits(b) ==
    LimbTrim([j \in 1..((Len(b) + LimbBits - 1) \div LimbBits) |->
                BitsVal(b, LimbBits * (j - 1) + 1, 0)])

\* floor(a / 2^s)
ShiftRight(a, s) == FromBits(SubSeq(Bits(a), s + 1, BitLen(a)))

\* a * 2^s
ShiftLeft(a, s) == FromBits([i \in 1..s |-> 0] \o SubSeq(Bits(a), 1, BitLen(a)))

RECURSIVE LimbAddOne(_)
\* a + 1
LimbAddOne(a) ==
    IF a = <<>> THEN <<1>>
    ELSE IF Head(a) + 1 < LimbBase THEN <<Head(a) + 1>> \o Tail(a)
    ELSE <<0>> \o LimbAddOne(Tail(a))

RECURSIVE LimbMulSmall(_, _, _)
\* a * m + carry for a small natural m
LimbMulSmall(a, m, carry) ==
    IF a = <<>> THEN (IF carry = 0 THEN <<>> ELSE <<carry>>)
    ELSE <<(Head(a) * m + carry) % LimbBase>>
           \o LimbMulSmall(Tail(a), m, (Head(a) * m + carry) \div LimbBase)

RECURSIVE LimbDivFrom(_, _, _, _, _)
\* the long division of a by the small d from the digit at position j down:
\* the quotient and the remainder
LimbDivFrom(a, d, j, q, rem) ==
    IF j = 0 THEN [q |-> LimbTrim(q), rem |-> rem]
    ELSE LimbDivFrom(a, d, j - 1, <<(rem * LimbBase + a[j]) \div d>> \o q,
                     (rem * LimbBase + a[j]) % d)

LimbDiv(a, d) == LimbDivFrom(a, d, Len(a), <<>>, 0)

\* the double m * 2^e with the low zero bits of m moved into the exponent
CanonOf(m, e, bits) ==
    LET tz == CHOOSE t \in 0..Len(bits) :
                /\ bits[t + 1] = 1
                /\ \A i \in 1..t : bits[i] = 0
    IN  [m |-> ShiftRight(m, tz), e |-> e + tz]

Canon(m, e) == IF m = <<>> THEN [m |-> <<>>, e |-> 0] ELSE CanonOf(m, e, Bits(m))

\* the double nearest to (a + f) * 2^e, ties to even, where the natural a of
\* the bits given has MantBits + s bits, s > 0, and 0 <= f < 1 is not zero
\* exactly when sticky
RoundBits(a, bits, e, sticky, s) ==
    LET up == /\ bits[s] = 1
              /\ \/ sticky
                 \/ \E i \in 1..(s - 1) : bits[i] = 1
                 \/ bits[s + 1] = 1
    IN  Canon(IF up THEN LimbAddOne(ShiftRight(a, s)) ELSE ShiftRight(a, s), e + s)

RoundLong(a, e, sticky) == RoundBits(a, Bits(a), e, sticky, BitLen(a) - MantBits)

\* the double nearest to a * 2^e for a natural a
RoundNat(a, e) ==
    IF BitLen(a) <= MantBits THEN Canon(a, e) ELSE RoundLong(a, e, FALSE)

\* x * m in doubles, m a small natural
DoubleMul(x, m) == RoundNat(LimbMulSmall(x.m, m, 0), x.e)

\* the quotient of x.m * 2^(MantBits + 7) by d is long enough to be rounded
DoubleDivOf(x, d, qr) ==
    IF x.m = <<>> THEN x
    ELSE RoundLong(qr.q, x.e - (MantBits + 7), qr.rem # 0)

\* x / d in doubles, d a small natural, 1 <= d < 2^7
DoubleDiv(x, d) == DoubleDivOf(x, d, LimbDiv(ShiftLeft(x.m, MantBits + 7), d))

DoubleOne == [m |-> <<1>>, e |-> 0]

DoubleZero == [m |-> <<>>, e |-> 0]

RECURSIVE nCkDoubleLoop(_, _, _, _)
\* for (let i = 1; i <= k; i++) res = (res * (n - (k - i))) / i: every value
\* res takes, the last one last
nCkDoubleLoop(n, k, i, res) ==
    IF i > k THEN <<res>>
    ELSE LET next == DoubleDiv(DoubleMul(res, n - (k - i)), i)
         IN  IF Len(next.m) >= 0 THEN <<res>> \o nCkDoubleLoop(n, k, i + 1, next)
             ELSE <<res>>

\* nCk as the code computes it: all the values of res; the last is returned
nCkDouble(n, k) ==
    IF k < 0 \/ k > n THEN <<DoubleZero>>
    ELSE nCkDoubleLoop(n, Min(k, n - k), 1, DoubleOne)

\* the sizes above MaxN the calls are tried with: 84 and 90 are the app's own
LargeN == {54, 55, 84, MAX_NUM}

\* a call of nCk for a set of at most 90 numbers
CallNCkDouble ==
    /\ fx = NoCall
    /\ \E n \in (0..MaxN) \cup LargeN, k \in (0 - 1)..(MAX_NUM + 1) :
         /\ k <= n + 1
         /\ fx' = [fn |-> "nCkDouble", n |-> n, k |-> k, values |-> nCkDouble(n, k)]
    /\ UNCHANGED appVars

NextBinom == CallNCkDouble

SpecBinom == Init /\ [][NextBinom]_vars

(* ------------------------------------------------------------------ *)
(* generateUniqueSestine with the factories of the app, many slots       *)
(* ------------------------------------------------------------------ *)
\* the factories of generate (seed on, seed off) and of the seeded regenerate
AppFactories ==
    {Factory("seedGen", sd \o SepStr \o newId(1) \o SepStr \o DecStr(t) \o SepStr,
             <<0, 0>>, nb, <<>>, <<>>) : sd \in LibSeeds, t \in {0, 1}, nb \in {0, 3}}
    \cup {Factory("baseGen", <<>>, RngNext(mulberry32(e)).v, nb, <<>>, <<>>) :
            e \in EntropyValues, nb \in {0, 3}}
    \cup {Factory("seedRegen", sd \o SepStr \o newId(1) \o SepStr \o RegenStr \o SepStr,
                  <<0, 0>>, 0, <<>>, <<>>) : sd \in LibSeeds}

\* the keys already stored: none, or what the first streams of the factory give
FirstKeys(f, k) ==
    {sestinaKey(generateRandomSestinaWithConstraints(RngFactory(f, nonce, 0),
                                                     NoConstraints).nums) :
        nonce \in 0..(k - 1)}

\* a call of generateUniqueSestine for up to two slots more than the nonce
\* limit allows
CallFill ==
    /\ fx = NoCall
    /\ \E count \in 0..(NonceLimit + 3), f \in AppFactories, k \in 0..2 :
         fx' = [fn |-> "fill", count |-> count, existingKeys |-> FirstKeys(f, k),
                rngFactory |-> f, constraints |-> NoConstraints,
                result |-> generateUniqueSestine(count, FirstKeys(f, k), f,
                                                 NoConstraints,
                                                 Options(f.mode # "baseGen", <<65>>, FALSE))]
    /\ UNCHANGED appVars

NextFill == CallFill

SpecFill == Init /\ [][NextFill]_vars

(* ------------------------------------------------------------------ *)
(* components/ImportPanel.tsx: import of a file into the groups          *)
(* ------------------------------------------------------------------ *)
MaxRows == 2            \* rows of an imported file
MaxImportIds == 3       \* group ids handed out before the imports stop

ImportStr == <<73, 109, 112, 111, 114, 116>>             \* "Import"

\* filter to [1, 90], Array.from(new Set(cleaned)), sort ascending
normalizeNumsImport(nums) ==
    SortAsc(AddAll(<<>>, SelectSeq(nums, LAMBDA n : n >= 1 /\ n <= 90)))

\* nums.join("-")
sigFromNums(nums) == Join(nums)

\* `${base} (import ${i})`
ImportName(base, i) ==
    base \o <<32, 40, 105, 109, 112, 111, 114, 116, 32>> \o DecStr(i) \o <<41>>

ensureUniqueGroupName(name, existingNames) ==
    LET base == IF Trim(name) = <<>> THEN ImportStr ELSE Trim(name)
    IN  IF base \notin existingNames THEN [finalName |-> base, renamed |-> FALSE]
        ELSE LET i == CHOOSE j \in 2..(Cardinality(existingNames) + 2) :
                           /\ ImportName(base, j) \notin existingNames
                           /\ \A h \in 2..(j - 1) : ImportName(base, h) \in existingNames
             IN  [finalName |-> ImportName(base, i), renamed |-> TRUE]

\* the rows of the file whose numbers normalise to six
Extracted(rows) ==
    SelectSeq([i \in 1..Len(rows) |->
                  [groupName |-> rows[i].groupName,
                   nums |-> normalizeNumsImport(rows[i].nums)]],
              LAMBDA r : Len(r.nums) = 6)

RECURSIVE ByName(_, _)
\* byName: a Map from group name to its items, in the order the names appear
ByName(acc, rows) ==
    IF rows = <<>> THEN acc
    ELSE LET r == Head(rows)
             item == [nums |-> normalizeNumsImport(r.nums),
                      sig |-> sigFromNums(normalizeNumsImport(r.nums))]
             next == IF \E i \in 1..Len(acc) : acc[i].name = r.groupName
                     THEN [i \in 1..Len(acc) |->
                             IF acc[i].name = r.groupName
                             THEN [acc[i] EXCEPT !.items = @ \o <<item>>]
                             ELSE acc[i]]
                     ELSE acc \o <<[name |-> r.groupName, items |-> <<item>>]>>
         IN  ByName(next, Tail(rows))

RECURSIVE DedupeItems(_, _)
\* of the items of one name with the same sig the first is kept
DedupeItems(out, items) ==
    IF items = <<>> THEN out
    ELSE IF \E i \in 1..Len(out) : out[i].sig = Head(items).sig
    THEN DedupeItems(out, Tail(items))
    ELSE DedupeItems(out \o <<Head(items)>>, Tail(items))

RECURSIVE GroupsToCreate(_, _, _, _)
\* groupsToCreate and pending: one new group per name, with a name no group has
\* and the items kept for it; k ids were handed out before
GroupsToCreate(acc, byName, existingNames, k) ==
    IF byName = <<>> THEN acc
    ELSE LET u == ensureUniqueGroupName(Head(byName).name, existingNames)
             g == [id |-> newId(k + 1), name |-> u.finalName, renamed |-> u.renamed,
                   items |-> DedupeItems(<<>>, Head(byName).items)]
         IN  GroupsToCreate(acc \o <<g>>, Tail(byName),
                            existingNames \cup {u.finalName}, k + 1)

RECURSIVE FlatItems(_)
FlatItems(pending) ==
    IF pending = <<>> THEN <<>> ELSE Head(pending).items \o FlatItems(Tail(pending))

\* the keys of existingSigIndex: the sigs of the stored combinations whose
\* numbers normalise to six
ExistingSigs(gs) ==
    UNION {{sigFromNums(normalizeNumsImport(gs[i].sestine[j].nums)) :
              j \in {h \in 1..Len(gs[i].sestine) :
                       Len(normalizeNumsImport(gs[i].sestine[h].nums)) = 6}} :
           i \in 1..Len(gs)}

RECURSIVE DupCasesFrom(_, _, _)
\* dupMap: one case, with the action "skip", per sig of the file that is stored
DupCasesFrom(acc, items, existing) ==
    IF items = <<>> THEN acc
    ELSE IF Head(items).sig \in existing
            /\ \A i \in 1..Len(acc) : acc[i].sig # Head(items).sig
    THEN DupCasesFrom(acc \o <<[sig |-> Head(items).sig, action |-> "skip"]>>,
                      Tail(items), existing)
    ELSE DupCasesFrom(acc, Tail(items), existing)

\* actionBySig.get(sig): "none" stands for undefined
ActionOf(dupCases, sig) ==
    IF \E i \in 1..Len(dupCases) : dupCases[i].sig = sig
    THEN dupCases[CHOOSE i \in 1..Len(dupCases) :
                    /\ dupCases[i].sig = sig
                    /\ \A h \in (i + 1)..Len(dupCases) : dupCases[h].sig # sig].action
    ELSE "none"

\* newId("sestina") until the key is not in existingKeys: the key is new; the
\* model takes "s<j>" for the least j that gives one
uniqueKey(existingKeys) ==
    <<115>> \o DecStr(CHOOSE j \in 1..(Cardinality(existingKeys) + 1) :
                         /\ (<<115>> \o DecStr(j)) \notin existingKeys
                         /\ \A h \in 1..(j - 1) : (<<115>> \o DecStr(h)) \in existingKeys)

\* the combination pushed for an item under the action act
ImportedSestina(key, it, act) ==
    [nums |-> it.nums, key |-> key, createdAt |-> 0, frozen |-> FALSE,
     meta |-> [importDuplicate |-> act \in {"allow", "mark"},
               movedFromOtherGroup |-> act = "move",
               duplicateOf |-> IF act \in {"mark", "move"} THEN it.sig ELSE <<>>]]

RECURSIVE ItemsLoop(_, _, _, _)
\* the loop over the items of one new group: the combinations pushed and
\* existingKeys after it
ItemsLoop(sestine, items, dupCases, existingKeys) ==
    IF items = <<>> THEN [sestine |-> sestine, existingKeys |-> existingKeys]
    ELSE IF ActionOf(dupCases, Head(items).sig) = "skip"
    THEN ItemsLoop(sestine, Tail(items), dupCases, existingKeys)
    ELSE LET key == uniqueKey(existingKeys)
         IN  ItemsLoop(sestine \o <<ImportedSestina(key, Head(items),
                                      ActionOf(dupCases, Head(items).sig))>>,
                       Tail(items), dupCases, existingKeys \cup {key})

ImportEvent(count, mode) == [type |-> "import", count |-> count, mode |-> mode]

RECURSIVE CreatedGroups(_, _, _, _, _)
\* groupsToCreate.map(...): the new groups with their combinations and event
CreatedGroups(acc, pending, dupCases, existingKeys, importMode) ==
    IF pending = <<>> THEN acc
    ELSE LET r == ItemsLoop(<<>>, Head(pending).items, dupCases, existingKeys)
             g == [id |-> Head(pending).id, name |-> Head(pending).name,
                   sestine |-> r.sestine,
                   events |-> <<ImportEvent(Len(r.sestine), importMode)>>]
         IN  CreatedGroups(acc \o <<g>>, Tail(pending), dupCases, r.existingKeys,
                           importMode)

\* baseGroups: nothing in replace mode; in merge mode the groups, without the
\* combinations whose case has the action "move"
BaseGroups(gs, dupCases, importMode) ==
    IF importMode = "replace" THEN <<>>
    ELSE [i \in 1..Len(gs) |->
            [gs[i] EXCEPT !.sestine =
                SelectSeq(@, LAMBDA x :
                    \/ Len(normalizeNumsImport(x.nums)) # 6
                    \/ ActionOf(dupCases, sigFromNums(normalizeNumsImport(x.nums)))
                         # "move")]]

AllKeys(gs) == UNION {{gs[i].sestine[j].key : j \in 1..Len(gs[i].sestine)} :
                        i \in 1..Len(gs)}

\* the groups after the setState of applyImport
Imported(gs, pending, dupCases, importMode) ==
    CreatedGroups(<<>>, pending, dupCases,
                  AllKeys(BaseGroups(gs, dupCases, importMode)), importMode)
      \o BaseGroups(gs, dupCases, importMode)

\* the state of the panel: mode, pendingGroups with pendingSestineByGroup,
\* dupCases, showDupModal, the counters of the report, and what the last
\* applyImport was called with
NotApplied == [mode |-> "none", dupCases |-> <<>>]

Panel(mode, pending, dupCases, showDupModal, report, applied) ==
    [fn |-> "import", mode |-> mode, pending |-> pending, dupCases |-> dupCases,
     showDupModal |-> showDupModal, report |-> report, applied |-> applied]

NoReport == [skippedInvalid |-> 0, renamedGroups |-> 0,
             incomingInternalDuplicates |-> 0, duplicateCases |-> 0]

\* applyImport: the groups are replaced, the pending import is dropped and
\* onAfterImport is given the id of the first new group
applyImport(pending, dupCases, importMode, report) ==
    /\ groups' = Imported(groups, pending, dupCases, importMode)
    /\ selectedGroupId' = pending[1].id
    /\ fx' = Panel(fx.mode, <<>>, <<>>, FALSE, report,
                   [mode |-> importMode, dupCases |-> dupCases])

\* the radio buttons of the mode
setMode(m) ==
    /\ fx.fn = "import" /\ ~fx.showDupModal
    /\ fx.mode # m
    /\ fx' = [fx EXCEPT !.mode = m]
    /\ outcome' = NoOutcome
    /\ UNCHANGED <<groups, selectedGroupId, settings, isGenerating, genModal,
                   genAbortRef, gen, nextGroup>>

\* handleFile once the file is read and parsed into rows [groupName, nums]
HandledFile(rows, extracted, pending) ==
    LET dupCases == DupCasesFrom(<<>>, FlatItems(pending), ExistingSigs(groups))
        report == [skippedInvalid |-> Len(rows) - Len(extracted),
                   renamedGroups |->
                       Cardinality({i \in 1..Len(pending) : pending[i].renamed}),
                   incomingInternalDuplicates |->
                       Len(extracted) - Len(FlatItems(pending)),
                   duplicateCases |-> Len(dupCases)]
    IN  /\ nextGroup' = nextGroup + Len(pending)
        /\ IF Len(dupCases) > 0
           THEN /\ fx' = Panel(fx.mode, pending, dupCases, TRUE, report, NotApplied)
                /\ UNCHANGED <<groups, selectedGroupId>>
           ELSE applyImport(pending, <<>>, fx.mode, report)

\* a file is chosen; a file with no importable row ends in an error after the
\* pending import was reset
handleFile(rows) ==
    /\ fx.fn = "import" /\ ~fx.showDupModal
    /\ nextGroup + Len(rows) <= MaxImportIds
    /\ IF Extracted(rows) = <<>>
       THEN /\ fx' = Panel(fx.mode, <<>>, <<>>, FALSE, NoReport, NotApplied)
            /\ UNCHANGED <<groups, selectedGroupId, nextGroup>>
       ELSE HandledFile(rows, Extracted(rows),
                        GroupsToCreate(<<>>, ByName(<<>>, Extracted(rows)),
                                       {groups[i].name : i \in 1..Len(groups)},
                                       nextGroup))
    /\ outcome' = NoOutcome
    /\ UNCHANGED <<settings, isGenerating, genModal, genAbortRef, gen>>

\* the select of one duplicate case
setDupAction(sig, v) ==
    /\ fx.fn = "import" /\ fx.showDupModal
    /\ ActionOf(fx.dupCases, sig) \notin {"none", v}
    /\ fx' = [fx EXCEPT !.dupCases =
                 [i \in 1..Len(@) |-> IF @[i].sig = sig
                                      THEN [@[i] EXCEPT !.action = v] ELSE @[i]]]
    /\ outcome' = NoOutcome
    /\ UNCHANGED <<groups, selectedGroupId, settings, isGenerating, genModal,
                   genAbortRef, gen, nextGroup>>

\* the button "Conferma import" of the duplicate modal
confirmImport ==
    /\ fx.fn = "import" /\ fx.showDupModal
    /\ applyImport(fx.pending, fx.dupCases, fx.mode, fx.report)
    /\ outcome' = NoOutcome
    /\ UNCHANGED <<settings, isGenerating, genModal, genAbortRef, gen, nextGroup>>

\* the button "Annulla import" of the duplicate modal
cancelImport ==
    /\ fx.fn = "import" /\ fx.showDupModal
    /\ fx' = [fx EXCEPT !.showDupModal = FALSE, !.pending = <<>>, !.dupCases = <<>>]
    /\ outcome' = NoOutcome
    /\ UNCHANGED <<groups, selectedGroupId, settings, isGenerating, genModal,
                   genAbortRef, gen, nextGroup>>

ImportNames == {<<65>>, <<66>>}
ImportNums == {<<1, 2, 3, 4, 5, 6>>, <<6, 5, 4, 3, 2, 1>>, <<1, 2, 3, 4, 5, 7>>,
               <<1, 2, 3, 4, 5, 5>>}
ImportRows == [groupName : ImportNames, nums : ImportNums]
ImportFiles == UNION {[1..k -> ImportRows] : k \in 1..MaxRows}
DuplicateActions == {"skip", "allow", "move", "mark"}

\* a group "A" that holds the combination 1-2-3-4-5-6
StoredGroup ==
    [id |-> newId(1), name |-> <<65>>,
     sestine |-> <<ValSestina(<<1, 2, 3, 4, 5, 6>>)>>, events |-> <<>>]

InitImport ==
    /\ groups \in {<<>>, <<StoredGroup>>}
    /\ selectedGroupId = IF groups = <<>> THEN Null ELSE newId(1)
    /\ settings = defaultSettings
    /\ isGenerating = FALSE
    /\ genModal = Null
    /\ genAbortRef = FALSE
    /\ gen = IdleGen
    /\ nextGroup = Len(groups)
    /\ outcome = NoOutcome
    /\ fx = Panel("merge", <<>>, <<>>, FALSE, NoReport, NotApplied)

NextImport ==
    \/ \E m \in {"merge", "replace"} : setMode(m)
    \/ \E rows \in ImportFiles : handleFile(rows)
    \/ \E sig \in {sigFromNums(normalizeNumsImport(n)) : n \in ImportNums} :
         \E v \in DuplicateActions : setDupAction(sig, v)
    \/ confirmImport
    \/ cancelImport

SpecImport == InitImport /\ [][NextImport]_vars

(* ------------------------------------------------------------------ *)
(* Properties                                                            *)
(* ------------------------------------------------------------------ *)
Last(s) == s[Len(s)]

NonDecreasing(s) == \A i \in 1..(Len(s) - 1) : s[i] <= s[i + 1]

KeysOf(g) == {g.sestine[j].key : j \in 1..Len(g.sestine)}

SelectedIndex == CHOOSE i \in 1..Len(groups) : groups[i].id = selectedGroupId

Ended == outcome.kind \in {"committed", "cancelled", "error"}

\* C1: in every reachable state of the app no two stored combinations, of the
\* same group or of different groups, have the same key (or the same numbers).
C1_GlobalUniqueness ==
    \A i1 \in 1..Len(groups) : \A i2 \in 1..Len(groups) :
      \A j1 \in 1..Len(groups[i1].sestine) : \A j2 \in 1..Len(groups[i2].sestine) :
        (i1 # i2 \/ j1 # j2) =>
            /\ groups[i1].sestine[j1].key # groups[i2].sestine[j2].key
            /\ groups[i1].sestine[j1].nums # groups[i2].sestine[j2].nums

\* a generation into an empty group failed on its first slot at the nonce limit:
\* every sample had the key of a combination of the other group
C1_Witness ==
    /\ outcome.kind = "error" /\ outcome.err = "nonce" /\ outcome.reports = <<0>>
    /\ Len(groups) = 2 /\ HasSelectedGroup
    /\ GroupById(selectedGroupId).sestine = <<>>
    /\ totalSestine > 0

\* C2: when generateUniqueSestine returns, the list has count combinations in
\* slot order, their keys are pairwise different and none was in existingKeys
\* before, and existingKeys has grown by exactly these count keys.
C2_AllocatePostcondition ==
    (fx.fn = "allocate" /\ fx.result.err = "none") =>
        LET out == fx.result.out
            outKeys == {out[k].key : k \in 1..Len(out)}
        IN  /\ Len(out) = fx.count
            /\ \A k \in 1..Len(out) :
                 /\ out[k].createdAt = k - 1
                 /\ out[k].key = sestinaKey(out[k].nums)
            /\ outKeys \cap fx.existingKeys = {}
            /\ Cardinality(outKeys) = Len(out)
            /\ fx.result.keys = fx.existingKeys \cup outKeys
            /\ Cardinality(fx.result.keys) = Cardinality(fx.existingKeys) + fx.count

\* a call that returned two combinations, the set not empty before, a slot
\* accepted only after a collision
C2_Witness ==
    /\ fx.fn = "allocate" /\ fx.result.err = "none"
    /\ fx.count = 2 /\ fx.existingKeys # {}
    /\ \E k \in 1..Len(fx.result.out) : fx.result.out[k].meta.attemptNonce > 0

\* C3: a call that resumes with the cancel flag set ends there, cancelled, and
\* leaves every group as it is; no step of a call before its end touches the
\* groups, so nothing produced before the cancel is ever stored.
C3_CancelRollsBack ==
    [][/\ (gen.pc = "sleeping" /\ genAbortRef /\ gen' # gen) =>
            (outcome'.kind = "cancelled" /\ groups' = groups /\ gen' = IdleGen)
       /\ (gen' # gen /\ gen'.pc = "sleeping") => groups' = groups]_vars

\* a call cancelled after its last chunk: two chunks reported, done = total
C3_Witness ==
    /\ outcome.kind = "cancelled"
    /\ Len(outcome.reports) = 3
    /\ Last(outcome.reports) = outcome.total

\* C4: the step in which a chunk raises changes no group and leaves isGenerating
\* false and the modal closed; the chunks before it changed no group either.
C4_ErrorCommitsNothing ==
    [][/\ outcome'.kind = "error" =>
            (groups' = groups /\ ~isGenerating' /\ genModal' = Null /\ gen' = IdleGen)
       /\ (gen' # gen /\ outcome'.kind # "committed") => groups' = groups]_vars

\* a call that raised after an earlier chunk of it had succeeded
C4_Witness ==
    /\ outcome.kind = "error"
    /\ Len(outcome.reports) >= 2
    /\ Last(outcome.reports) > 0

Distinct6(nums) ==
    /\ Len(nums) = SESTINA_LEN
    /\ \A i \in 1..Len(nums) : nums[i] \in MIN_NUM..MAX_NUM
    /\ \A i \in 1..(Len(nums) - 1) : nums[i] < nums[i + 1]

Satisfies(nums, c) ==
    /\ SeqToSet(nums) \cap SeqToSet(c.exclude) = {}
    /\ SeqToSet(c.mustInclude) \subseteq SeqToSet(nums)
    /\ c.mustIncludeAnyOf # <<>> => SeqToSet(nums) \cap SeqToSet(c.mustIncludeAnyOf) # {}

SamplePre(c) ==
    /\ Cardinality(SeqToSet(c.mustInclude)) <= SESTINA_LEN
    /\ SeqToSet(c.mustInclude) \subseteq MIN_NUM..MAX_NUM
    /\ SeqToSet(c.mustInclude) \cap SeqToSet(c.exclude) = {}

\* C5 (as amended): with at most 6 mandatory numbers, all of [1,90] and none of
\* them excluded, whatever generateRandomSestinaWithConstraints returns is 6 distinct ascending
\* integers of [1,90] that satisfy the three constraints; it does not raise the
\* impossible-constraint error, but it may raise instead of returning.
C5_ReturnedSatisfies ==
    (fx.fn = "sample" /\ SamplePre(fx.constraints)) =>
        /\ fx.result.err # "tooMany"
        /\ fx.result.err = "none" =>
             (Distinct6(fx.result.nums) /\ Satisfies(fx.result.nums, fx.constraints))

\* a sample returned after a first fill failed mustIncludeAnyOf
C5_Witness ==
    /\ fx.fn = "sample" /\ SamplePre(fx.constraints)
    /\ fx.result.err = "none"
    /\ fx.constraints.mustIncludeAnyOf # <<>>
    /\ fx.result.draws > 7

\* C5 as stated, for the streams of mulberry32: under the same precondition the
\* call always returns such a combination.
C5_AlwaysReturns ==
    (fx.fn = "sample" /\ SamplePre(fx.constraints) /\ fx.rng.kind = "mulberry") =>
        /\ fx.result.err = "none"
        /\ Distinct6(fx.result.nums)
        /\ Satisfies(fx.result.nums, fx.constraints)

SameRun(p, q) ==
    /\ Trim(p.seedValue) = Trim(q.seedValue)
    /\ p.gid = q.gid /\ p.total = q.total /\ p.keys = q.keys
    /\ p.count = q.count /\ p.constraints = q.constraints

\* the sequence a call produced: the numbers and attemptNonce of every slot, and
\* how it ended
Produced(r) ==
    <<r.err, [k \in 1..Len(r.gen.allGenerated) |->
                <<r.gen.allGenerated[k].nums, r.gen.allGenerated[k].meta.attemptNonce>>]>>

C7_RegenerateFrame ==
    [][/\ outcome'.kind = "regenerated" =>
            LET i == SelectedIndex
                old == groups[i].sestine
                kept == FrozenOf(groups[i])
                new == groups'[i].sestine
            IN  /\ Len(groups') = Len(groups)
                /\ \A j \in 1..Len(groups) : j # i => groups'[j] = groups[j]
                /\ groups'[i].id = groups[i].id
                /\ Len(new) = Len(old)
                /\ Len(kept) < Len(old)
                /\ SubSeq(new, 1, Len(kept)) = kept
                /\ \A k \in (Len(kept) + 1)..Len(new) : ~new[k].frozen
                /\ outcome'.total = Len(old) - Len(kept)
       /\ outcome'.kind = "regenNone" =>
            (groups' = groups /\ FrozenOf(groups[SelectedIndex]) = groups[SelectedIndex].sestine)
       /\ (outcome'.kind \in {"regenerated", "regenError"}) =>
            FrozenOf(groups[SelectedIndex]) # groups[SelectedIndex].sestine]_vars

\* the second group after its regeneration: its second and third combinations,
\* frozen, now come first, and one new combination follows
C7_Witness ==
    /\ outcome.kind = "regenerated" /\ outcome.total = 1
    /\ selectedGroupId = newId(2)
    /\ LET s == GroupById(newId(2)).sestine
           was == SecondGroups[1].sestine
       IN  /\ Len(s) = 3
           /\ s[1] = [was[2] EXCEPT !.frozen = TRUE]
           /\ s[2] = [was[3] EXCEPT !.frozen = TRUE]
           /\ ~s[3].frozen

\* C8: no replacement has the key of a frozen combination of the group, of a
\* combination of another group or of another replacement of the call; it may
\* have the key of a combination it replaces.
C8_ReplacementsAreFresh ==
    [][outcome'.kind = "regenerated" =>
          LET i == SelectedIndex
              kept == FrozenOf(groups[i])
              new == groups'[i].sestine
              repl == (Len(kept) + 1)..Len(new)
          IN  \A k \in repl :
                /\ new[k].key = sestinaKey(new[k].nums)
                /\ new[k].key \notin {kept[j].key : j \in 1..Len(kept)}
                /\ \A j \in 1..Len(groups) : j # i => new[k].key \notin KeysOf(groups[j])
                /\ \A m \in repl : m # k => new[m].key # new[k].key]_vars

\* the first group regenerated under the six mandatory numbers: the replacement
\* has the key of the combination it replaced
C8_Witness ==
    /\ outcome.kind = "regenerated"
    /\ selectedGroupId = newId(1)
    /\ Len(GroupById(newId(1)).events) = 2
    /\ KeysOf(GroupById(newId(1))) = KeysOf(FirstGroups[1])

\* the done values a call of total n reports: 0, then the count produced after
\* each chunk
ReportsOf(r, n) ==
    /\ Len(r) >= 1
    /\ \A i \in 1..Len(r) : r[i] = Min(n, (i - 1) * ChunkSize(n))

\* C9 (as amended): the total shown is the count of the call and never changes;
\* done starts at 0, is reported after each chunk and never decreases; a call
\* that commits has reported done = total, a call that raises has not; a
\* cancelled call may have reported done = total.
C9_Progress ==
    /\ gen.pc = "sleeping" =>
         /\ genModal # Null
         /\ genModal.total = gen.n
         /\ genModal.done = gen.produced
         /\ Len(gen.reports) >= 2
         /\ Last(gen.reports) = gen.produced
         /\ ReportsOf(gen.reports, gen.n)
         /\ NonDecreasing(gen.reports)
    /\ Ended => (ReportsOf(outcome.reports, outcome.total)
                 /\ NonDecreasing(outcome.reports))
    /\ outcome.kind = "committed" => Last(outcome.reports) = outcome.total
    /\ outcome.kind = "error" => Last(outcome.reports) < outcome.total

\* a call of two chunks that committed: it reported 0, 1, 2
C9_Witness ==
    /\ outcome.kind = "committed"
    /\ outcome.reports = <<0, 1, 2>>

\* C9 as stated: done = total was reported if and only if the call committed.
C9_DoneIffCommitted ==
    Ended => (Last(outcome.reports) = outcome.total <=> outcome.kind = "committed")

AnyOfUnmeetable(c) ==
    /\ c.mustIncludeAnyOf # <<>>
    /\ \/ SeqToSet(c.mustIncludeAnyOf) \subseteq SeqToSet(c.exclude)
       \/ /\ Cardinality(SeqToSet(c.mustInclude)) = SESTINA_LEN
          /\ SeqToSet(c.mustIncludeAnyOf) \cap SeqToSet(c.mustInclude) = {}

\* C11: generateRandomSestinaWithConstraints ends by returning or by one of its
\* two guarded errors (too many mandatory numbers, fill guard exceeded), also
\* when mustIncludeAnyOf cannot be met; its whole-sample retries are bounded by
\* a guard of the function and never run into the depth of the call stack.
C11_RetriesGuarded ==
    (fx.fn = "sample" /\ AnyOfUnmeetable(fx.constraints)) =>
        fx.result.err \in {"none", "tooMany", "loop"}

\* C12: a call whose mustInclude and exclude share a number raises the
\* impossible-constraint error, and raises it before any value is drawn.
C12_OverlapRejected ==
    (/\ fx.fn = "sample"
     /\ SeqToSet(fx.constraints.mustInclude) \cap SeqToSet(fx.constraints.exclude) # {}) =>
        (fx.result.err = "tooMany" /\ fx.result.draws = 0)

\* the numbers of [1,90] that exclude leaves, in ascending order
AllowedNums(c) ==
    SortAsc(SelectSeq(AllNums, LAMBDA x : ~Includes(c.exclude, x)))

\* exactly six numbers are not excluded, nothing is mandatory
SixAllowed(c) ==
    /\ c.mustInclude = <<>> /\ c.mustIncludeAnyOf = <<>>
    /\ Cardinality((MIN_NUM..MAX_NUM) \ SeqToSet(c.exclude)) = SESTINA_LEN

SixMandatory(c) == Cardinality(SeqToSet(c.mustInclude)) = SESTINA_LEN

\* the six mandatory numbers can be the answer: none is excluded, and
\* mustIncludeAnyOf is empty or holds one of them
MandatoryAllowed(c) ==
    /\ SeqToSet(c.mustInclude) \cap SeqToSet(c.exclude) = {}
    /\ c.mustIncludeAnyOf # <<>> =>
         SeqToSet(c.mustIncludeAnyOf) \cap SeqToSet(c.mustInclude) # {}

\* C14 (as amended): with exactly six distinct mandatory numbers, whatever the
\* call returns is these six in ascending order and no value of the stream was
\* taken; it returns them when none of them is excluded and mustIncludeAnyOf is
\* empty or holds one of them.
C14_SixMandatory ==
    (fx.fn = "sample" /\ SixMandatory(fx.constraints)) =>
        /\ fx.result.err # "tooMany"
        /\ fx.result.draws = 0 /\ fx.result.rng = fx.rng
        /\ fx.result.err = "none" =>
             /\ fx.result.nums = SortAsc(AddAll(<<>>, fx.constraints.mustInclude))
             /\ SeqToSet(fx.result.nums) = SeqToSet(fx.constraints.mustInclude)
        /\ MandatoryAllowed(fx.constraints) => fx.result.err = "none"

\* the list 7, 42, 7, 14, 21, 28, 35 (six distinct numbers, not in order) and a
\* seeded stream: the call returned them sorted
C14_Witness ==
    /\ fx.fn = "sample" /\ SixMandatory(fx.constraints)
    /\ Len(fx.constraints.mustInclude) = 7
    /\ fx.rng.kind = "mulberry"
    /\ fx.result.err = "none"
    /\ fx.result.nums = <<7, 14, 21, 28, 35, 42>>

\* C14 as stated: six distinct mandatory numbers are always returned.
C14_AlwaysTheMandatory ==
    (fx.fn = "sample" /\ SixMandatory(fx.constraints)) =>
        (/\ fx.result.err = "none"
         /\ fx.result.nums = SortAsc(AddAll(<<>>, fx.constraints.mustInclude)))

RECURSIVE SumSeq(_)
SumSeq(s) == IF s = <<>> THEN 0 ELSE Head(s) + SumSeq(Tail(s))

\* the chunk size limit the claim gives for a count of n
ClaimedLimit(n) ==
    CASE n < 200 -> 50
      [] n >= 200 /\ n < 1000 -> 100
      [] n >= 1000 /\ n < 5000 -> 200
      [] OTHER -> 250

\* the chunks of a call of count n: all of the limit but the last, none empty,
\* summing to n
ChunksSplit(chunks, n, limit) ==
    /\ Len(chunks) >= 1
    /\ \A i \in 1..(Len(chunks) - 1) : chunks[i] = limit
    /\ Last(chunks) \in 1..limit
    /\ SumSeq(chunks) = n

RECURSIVE Binomial(_, _)
\* the binomial coefficient by Pascal's rule, 0 <= k <= n
Binomial(n, k) ==
    IF k = 0 \/ k = n THEN 1 ELSE Binomial(n - 1, k - 1) + Binomial(n - 1, k)

\* C16: nCk is the binomial coefficient; the seven products nCk(6,r) * nCk(84,6-r)
\* sum to nCk(90,6), so the exact-match probabilities sum to 1 and their running
\* sums end at 1; the probability of 6 matches is 1 / nCk(90,6).
C16_ExactMatchDistribution ==
    /\ fx.fn = "nCk" =>
         /\ (fx.k < 0 \/ fx.k > fx.n) => fx.result = 0
         /\ (fx.k >= 0 /\ fx.k <= fx.n) => fx.result = Binomial(fx.n, fx.k)
    /\ fx.fn = "exact" =>
         /\ fx.result[2] = nCk(90, 6) /\ fx.result[2] = 622614630
         /\ fx.result[1] >= 0 /\ fx.result[1] <= fx.result[2]
         /\ fx.r \in 0..6 => fx.result[1] = nCk(6, fx.r) * nCk(84, 6 - fx.r)
         /\ fx.r \in 0..6 => fx.result[1] > 0
         /\ fx.r \notin 0..6 => fx.result[1] = 0
         /\ fx.r = 6 => fx.result = Prob(1, nCk(90, 6))
         /\ SumSeq([i \in 1..7 |-> nCk(6, i - 1) * nCk(84, 7 - i)]) = nCk(90, 6)
         /\ Len(fx.cdf) = 7
         /\ fx.cdf[7][1] = fx.cdf[7][2]
         /\ \A i \in 1..6 : fx.cdf[i][1] < fx.cdf[i + 1][1]

\* the call for 6 matches, and the running sums: 406481544 of 622614630 for no
\* match
C16_Witness ==
    /\ fx.fn = "exact" /\ fx.r = 6
    /\ fx.result = <<1, 622614630>>
    /\ fx.cdf[1] = <<406481544, 622614630>>
    /\ fx.cdf[7] = <<622614630, 622614630>>

\* p <= q for two probabilities with whole numbers of any size
ProbLeq(p, q) == ~BigLess(BigMul(q[1], p[2]), BigMul(p[1], q[2]))

\* the number of the C(90,6) draws with at most j matches
AtMost(j) == SumSeq([i \in 1..(j + 1) |-> nCk(6, i - 1) * nCk(84, 7 - i)])

\* C17: for k >= 1 tickets atLeastDistribution(k) lists m = 6, 5, 4, 3, 2, 1 in
\* this order with p(m) = 1 - CDF(m-1)^k; p does not increase with m, every p
\* is above 0 and at most 1, and no p(m) is smaller for k + 1 tickets than for k.
C17_AtLeastDistribution ==
    (fx.fn = "atLeast" /\ fx.kTickets >= 1) =>
        LET out == fx.result
            more == atLeastDistribution(fx.kTickets + 1)
        IN  /\ Len(out) = 6
            /\ \A i \in 1..6 : out[i].m = 7 - i
            /\ \A i \in 1..6 :
                 /\ out[i].p[2] = BigPow(BigOf(622614630), fx.kTickets)
                 /\ BigAdd(out[i].p[1], BigPow(BigOf(AtMost(out[i].m - 1)), fx.kTickets))
                      = out[i].p[2]
                 /\ out[i].p[1] # <<>>
                 /\ ~BigLess(out[i].p[2], out[i].p[1])
                 /\ ProbLeq(out[i].p, more[i].p)
            /\ \A i \in 1..5 : ProbLeq(out[i].p, out[i + 1].p)

\* two tickets: the chance of a 6 is (2 * 622614630 - 1) / 622614630^2, and the
\* chance of at least one match is higher than with one ticket
C17_Witness ==
    /\ fx.fn = "atLeast" /\ fx.kTickets = 2
    /\ fx.result[1].m = 6
    /\ fx.result[1].p[1] = BigOf(1245229259)
    /\ fx.result[6].m = 1
    /\ BigLess(BigMul(atLeastDistribution(1)[6].p[1], fx.result[6].p[2]),
               BigMul(fx.result[6].p[1], atLeastDistribution(1)[6].p[2]))


\* the tier of a combination with the given number of hits
TierOf(hits, jollyAmong) ==
    CASE hits = 6 -> "6"
      [] hits = 5 /\ jollyAmong -> "5+1"
      [] hits = 5 /\ ~jollyAmong -> "5"
      [] hits \in {2, 3, 4} -> <<"2", "3", "4">>[hits - 1]
      [] OTHER -> "other"

\* the payout of a tier
TierPayout(tier, jackpot) ==
    CASE tier = "6" -> jackpot
      [] tier = "5+1" -> 620000
      [] tier = "5" -> 32000
      [] tier = "4" -> 300
      [] tier = "3" -> 25
      [] tier = "2" -> 5
      [] tier = "other" -> 0

\* the numbers of the combination s that the draw holds
Matched(s, draw) == SeqToSet(s.nums) \cap SeqToSet(draw)

\* the combinations of the list whose tier is t
InTier(sestine, draw, jolly, t) ==
    {i \in 1..Len(sestine) :
        TierOf(Cardinality(Matched(sestine[i], draw)),
               jolly \in SeqToSet(sestine[i].nums)) = t}

\* C18: a validation gives every combination of the group one row whose hits
\* are the count of its numbers in the draw; every combination is counted in
\* the one tier its hits and the jolly give, so the counts of the tiers sum to
\* the number of combinations; the estimated total is the sum of the payouts of
\* the tiers; the result is the same for every superstar; a combination equal
\* to the draw has 6 hits and is counted in tier "6".
C18_ValidationTiers ==
    (fx.fn = "validate" /\ fx.ok) =>
        LET res == fx.result
            sestine == fx.sestine
        IN  /\ Len(res.rows) = Len(sestine)
            /\ \A i \in 1..Len(sestine) :
                 \E j \in 1..Len(res.rows) :
                    /\ res.rows[j].key = sestine[i].key
                    /\ res.rows[j].hits = Cardinality(Matched(sestine[i], res.draw))
                    /\ SeqToSet(res.rows[j].hitNums) = Matched(sestine[i], res.draw)
                    /\ SeqToSet(sestine[i].nums) = SeqToSet(res.draw)
                         => /\ res.rows[j].hits = 6
                            /\ i \in InTier(sestine, res.draw, res.jolly, "6")
            /\ \A t \in PrizeLabels :
                 res.prizeCounts[t]
                   = Cardinality(InTier(sestine, res.draw, res.jolly, t))
            /\ res.prizeCounts["6"] + res.prizeCounts["5+1"] + res.prizeCounts["5"]
                 + res.prizeCounts["4"] + res.prizeCounts["3"] + res.prizeCounts["2"]
                 + res.prizeCounts["other"] = Len(sestine)
            /\ res.estimatedTotalEuro
                 = res.prizeCounts["6"] * TierPayout("6", fx.jackpotEuro)
                   + res.prizeCounts["5+1"] * TierPayout("5+1", fx.jackpotEuro)
                   + res.prizeCounts["5"] * TierPayout("5", fx.jackpotEuro)
                   + res.prizeCounts["4"] * TierPayout("4", fx.jackpotEuro)
                   + res.prizeCounts["3"] * TierPayout("3", fx.jackpotEuro)
                   + res.prizeCounts["2"] * TierPayout("2", fx.jackpotEuro)
                   + res.prizeCounts["other"] * TierPayout("other", fx.jackpotEuro)
            /\ \A superstar \in {Undefined, 1, 90} :
                 LET other == Validation(sestine, res.draw, res.jolly, superstar,
                                         fx.jackpotEuro)
                 IN  /\ other.prizeCounts = res.prizeCounts
                     /\ other.estimatedTotalEuro = res.estimatedTotalEuro

\* the draw 1..6 with jolly 90 and superstar 90 against a group holding the
\* draw itself and 1, 2, 3, 4, 5, 90: one "6", one "5+1", the jackpot and 620000
C18_Witness ==
    /\ fx.fn = "validate" /\ fx.ok
    /\ fx.result.superstar = 90
    /\ \E j \in 1..Len(fx.result.rows) : fx.result.rows[j].superstarHit
    /\ fx.result.prizeCounts["6"] = 1
    /\ fx.result.prizeCounts["5+1"] = 1
    /\ fx.jackpotEuro = 50000000
    /\ fx.result.estimatedTotalEuro = 50620000


\* C19: a call of generateUniqueSestine that throws after it accepted a slot
\* leaves in existingKeys exactly the keys the set held before the call.
C19_KeysRestored ==
    (fx.fn = "allocate" /\ fx.result.err # "none" /\ Len(fx.result.out) > 0) =>
        fx.result.keys = fx.existingKeys


RECURSIVE CallsBefore(_, _)
\* the rngFactory calls made for the slots before the k-th of the list out
CallsBefore(out, k) ==
    IF k <= 1 THEN 0
    ELSE CallsBefore(out, k - 1) + out[k - 1].meta.attemptNonce + 1

\* the key set when the k-th slot of the call is filled
KeysAtSlot(call, k) ==
    call.existingKeys \cup {call.result.out[j].key : j \in 1..(k - 1)}

\* the sample of the k-th slot of the call at the given nonce
SampleAtSlot(call, k, nonce) ==
    generateRandomSestinaWithConstraints(
        RngFactory(call.rngFactory, nonce, CallsBefore(call.result.out, k) + nonce),
        call.constraints)

\* the sample of the k-th slot at the nonce was returned and its key is in the set
Collides(call, k, nonce) ==
    /\ SampleAtSlot(call, k, nonce).err = "none"
    /\ sestinaKey(SampleAtSlot(call, k, nonce).nums) \in KeysAtSlot(call, k)

\* the sampling attempts made for the slot the call was filling when it ended
LastSlotAttempts(call) ==
    call.result.calls - CallsBefore(call.result.out, Len(call.result.out) + 1)

\* C20 as stated: the nonce of a slot starts at 0 and grows by 1 per
\* collision, the slot is accepted at the first sample whose key is not in the
\* set and records the number of its collisions, and no slot has more than
\* NonceLimit sampling attempts.
C20_AtMostLimitAttempts ==
    (fx.fn = "allocate") =>
        /\ \A k \in 1..Len(fx.result.out) :
             /\ \A n \in 0..(fx.result.out[k].meta.attemptNonce - 1) : Collides(fx, k, n)
             /\ ~Collides(fx, k, fx.result.out[k].meta.attemptNonce)
             /\ fx.result.out[k].meta.attemptNonce + 1 <= NonceLimit
        /\ LastSlotAttempts(fx) <= NonceLimit

\* C20: the nonce of a slot starts at 0 and grows by 1 per collision; the slot
\* is accepted at the first sample whose key is not in the set, with the
\* nonces 0..attemptNonce-1 all colliding, and attemptNonce is at most
\* NonceLimit; the nonce error is raised when the samples at the nonces
\* 0..NonceLimit all collide, that is after NonceLimit + 1 sampling attempts
\* for the slot, and no slot has more.
C20_NonceCounting ==
    (fx.fn = "allocate") =>
        /\ \A k \in 1..Len(fx.result.out) :
             /\ fx.result.out[k].meta.attemptNonce \in 0..NonceLimit
             /\ \A n \in 0..(fx.result.out[k].meta.attemptNonce - 1) : Collides(fx, k, n)
             /\ ~Collides(fx, k, fx.result.out[k].meta.attemptNonce)
             /\ SampleAtSlot(fx, k, fx.result.out[k].meta.attemptNonce).nums
                  = fx.result.out[k].nums
        /\ LastSlotAttempts(fx) \in 0..(NonceLimit + 1)
        /\ fx.result.err = "nonce" =>
             /\ LastSlotAttempts(fx) = NonceLimit + 1
             /\ \A n \in 0..NonceLimit : Collides(fx, Len(fx.result.out) + 1, n)
        /\ fx.result.err = "none" => LastSlotAttempts(fx) = 0

\* a call whose first slot is accepted at nonce 1 after one collision and whose
\* second slot collides at the nonces 0..NonceLimit and raises the nonce error
C20_Witness ==
    /\ fx.fn = "allocate" /\ fx.result.err = "nonce"
    /\ Len(fx.result.out) = 1
    /\ fx.result.out[1].meta.attemptNonce = 1
    /\ LastSlotAttempts(fx) = NonceLimit + 1


\* the chunk (from 0) of the slot at position j of allGenerated
ChunkIndex(g, j) == (j - 1) \div g.CHUNK

\* the effective nonces the slot at position j of allGenerated was sampled at:
\* every chunk before its own was full, and each added 3 * CHUNK to nonceBase
SlotNonces(g, j) ==
    {3 * g.CHUNK * ChunkIndex(g, j) + nonce :
        nonce \in 0..g.allGenerated[j].meta.attemptNonce}

\* C21: in one call of generateForSelectedGroup no effective nonce
\* (nonceBase + nonce) is used by slots of two different chunks.
C21_NonceRangesDisjoint ==
    (fx.fn = "run") =>
        \A i, j \in 1..Len(fx.r.gen.allGenerated) :
            ChunkIndex(fx.r.gen, i) # ChunkIndex(fx.r.gen, j) =>
                SlotNonces(fx.r.gen, i) \cap SlotNonces(fx.r.gen, j) = {}


\* the slots of the chunk that starts with the locals g
TakeAt(g) == Min(g.CHUNK, g.n - g.produced)

\* the call whose locals were g allocated one whole chunk, reported it and sleeps
ChunkDone(g, after) ==
    /\ after.pc = "sleeping"
    /\ after.produced = g.produced + TakeAt(g)
    /\ Len(after.allGenerated) = after.produced
    /\ after.reports = Append(g.reports, after.produced)

\* C22: a call is only ever idle or asleep after a chunk; a step of the call
\* with the flag clear allocates one whole chunk and sleeps (or fails), and once
\* all is produced commits; a step with the flag set allocates nothing, commits
\* nothing and ends the call; a call that commits has slept once per chunk.
C22_SuspendsPerChunk ==
    [][/\ gen.pc \in {"idle", "sleeping"} /\ gen'.pc \in {"idle", "sleeping"}
       /\ (gen.pc = "idle" /\ gen' # gen) =>
            /\ gen'.reports[1] = 0
            /\ ChunkDone([gen' EXCEPT !.produced = 0, !.reports = <<0>>], gen')
       /\ (gen.pc = "sleeping" /\ gen' # gen /\ ~genAbortRef /\ gen.produced < gen.n) =>
            \/ outcome'.kind = "error" /\ gen' = IdleGen /\ groups' = groups
            \/ ChunkDone(gen, gen') /\ groups' = groups
       /\ (gen.pc = "sleeping" /\ gen' # gen /\ ~genAbortRef /\ gen.produced >= gen.n) =>
            /\ outcome'.kind = "committed" /\ gen' = IdleGen
            /\ groups' = Committed(groups, gen)
            /\ Len(gen.reports) - 1 = (gen.n + gen.CHUNK - 1) \div gen.CHUNK
       /\ (gen.pc = "sleeping" /\ genAbortRef) =>
            \/ gen' = gen /\ genAbortRef'
            \/ outcome'.kind = "cancelled" /\ gen' = IdleGen /\ groups' = groups]_vars

\* "Annulla" was clicked after the first of two chunks: the call ended with one
\* chunk reported, nothing stored
C22_Witness ==
    /\ outcome.kind = "cancelled"
    /\ outcome.total = 2
    /\ outcome.reports = <<0, 1>>
    /\ totalSestine = 0


\* the text the seeded stream of the effective nonce nn is derived from
SeedText(p, nn) ==
    Trim(p.seedValue) \o SepStr \o p.gid \o SepStr \o DecStr(p.total) \o SepStr
        \o DecStr(nn)

\* the slot at position j of the call of p holds what the seeded stream of its
\* last effective nonce gives
FromSeedText(p, g, j) ==
    g.allGenerated[j].nums
      = generateRandomSestinaWithConstraints(
            rngFromSeed(SeedText(p, 3 * g.CHUNK * ChunkIndex(g, j)
                                      + g.allGenerated[j].meta.attemptNonce)),
            p.constraints).nums

\* C23: two seeded calls of generateForSelectedGroup with the same seed string,
\* group id, total of stored combinations, count, constraints and stored keys
\* end the same way with the same numbers and the same attemptNonce in every
\* slot, whatever entropy each is given: every slot holds what the stream
\* derived from these values and its effective nonce gives.
C23_SeededRunDetermined ==
    (fx.fn = "replay" /\ fx.a = fx.b) =>
        /\ fx.ra.err = fx.rb.err
        /\ Len(fx.ra.gen.allGenerated) = Len(fx.rb.gen.allGenerated)
        /\ \A k \in 1..Len(fx.ra.gen.allGenerated) :
             /\ fx.ra.gen.allGenerated[k].nums = fx.rb.gen.allGenerated[k].nums
             /\ fx.ra.gen.allGenerated[k].meta.attemptNonce
                  = fx.rb.gen.allGenerated[k].meta.attemptNonce
             /\ FromSeedText(fx.a, fx.ra.gen, k)
        /\ fx.ra.gen.keys = fx.rb.gen.keys

\* the same call twice, of two chunks, the first slot accepted at nonce 1
\* after a collision with the stored key
C23_Witness ==
    /\ fx.fn = "replay" /\ fx.a = fx.b
    /\ fx.a.keys # {}
    /\ fx.ra.err = "none"
    /\ Len(fx.ra.gen.allGenerated) = 2
    /\ fx.ra.gen.allGenerated[1].meta.attemptNonce = 1
    /\ fx.ra.gen.baseSeedNum = fx.rb.gen.baseSeedNum


\* C24: two lists of six different numbers have the same key exactly when they
\* hold the same numbers, in whatever order each lists them; every stored
\* combination has its numbers ascending and the key of its numbers.
C24_KeyIsCanonical ==
    /\ (fx.fn = "key") => ((fx.ka = fx.kb) <=> (SeqToSet(fx.a) = SeqToSet(fx.b)))
    /\ \A i \in 1..Len(groups) : \A j \in 1..Len(groups[i].sestine) :
         /\ groups[i].sestine[j].key = sestinaKey(groups[i].sestine[j].nums)
         /\ groups[i].sestine[j].key = Join(groups[i].sestine[j].nums)
         /\ \A k \in 1..5 :
              groups[i].sestine[j].nums[k] < groups[i].sestine[j].nums[k + 1]

\* a combination stored by a regeneration and the same numbers reversed: one key
C24_Witness ==
    /\ fx.fn = "key"
    /\ outcome.kind = "regenerated"
    /\ fx.b \in StoredNums
    /\ fx.a # fx.b
    /\ SeqToSet(fx.a) = SeqToSet(fx.b)
    /\ fx.ka = fx.kb


RECURSIVE ExactLoop(_, _, _, _)
\* C(n - k + i - 1, i - 1) * (n - k + i) / i = C(n - k + i, i), in whole numbers
\* of any size
ExactLoop(n, k, i, res) ==
    IF i > k THEN res
    ELSE LET next == LimbDiv(LimbMulSmall(res, n - (k - i), 0), i).q
         IN  IF Len(next) >= 0 THEN ExactLoop(n, k, i + 1, next) ELSE res

\* the binomial coefficient C(n, k), 0 <= k <= n, as a whole number of any size
BinomialBits(n, k) == ExactLoop(n, Min(k, n - k), 1, <<1>>)

\* the double x is the whole number a
IsNat(x, a) == x.e >= 0 /\ ShiftLeft(x.m, x.e) = a

\* C25 as stated: nCk(n, k) is the binomial coefficient for 0 <= k <= n <= 90 and
\* 0 for k < 0 or k > n, nCk(n, k) = nCk(n, n - k), and every value of the loop
\* is a whole number.
C25_nCkIsBinomial ==
    (fx.fn = "nCkDouble") =>
        /\ (fx.k < 0 \/ fx.k > fx.n) => Last(fx.values) = DoubleZero
        /\ (fx.k >= 0 /\ fx.k <= fx.n) =>
             /\ IsNat(Last(fx.values), BinomialBits(fx.n, fx.k))
             /\ Last(fx.values) = Last(nCkDouble(fx.n, fx.n - fx.k))
             /\ \A i \in 1..Len(fx.values) : fx.values[i].e >= 0


\* the text of the draw yields exactly 6 different numbers of 1..90
SixInRange(drawInput) ==
    Cardinality({n \in SeqToSet(drawInput) : n >= 1 /\ n <= 90}) = 6

\* the events of every group
EventsOf(gs) == [i \in 1..Len(gs) |-> gs[i].events]

\* C26: a click on "Valida" with a draw that does not yield 6 different numbers
\* of 1..90 sets the error and leaves the result shown and every group as they
\* were; with a valid draw it puts one validate event before the events of the
\* selected group, leaves the events of the other groups and the combinations
\* of every group as they were, and clears the error.
C26_ValidateFrame ==
    [][(fx'.fn = "validate" /\ (fx' # fx \/ EventsOf(groups') # EventsOf(groups))) =>
         IF ~SixInRange(fx'.drawInput)
         THEN /\ ~fx'.ok /\ fx'.error # Null
              /\ fx'.result = PrevValidation.result
              /\ groups' = groups
         ELSE /\ fx'.ok /\ fx'.error = Null
              /\ SeqToSet(fx'.result.draw) = SeqToSet(fx'.drawInput) \cap (1..90)
              /\ Len(groups') = Len(groups)
              /\ \A i \in 1..Len(groups) :
                   /\ groups'[i].id = groups[i].id
                   /\ groups'[i].sestine = groups[i].sestine
                   /\ groups'[i].events =
                        IF groups[i].id = selectedGroupId
                        THEN <<ValidateEvent>> \o groups[i].events
                        ELSE groups[i].events]_vars

\* a draw of five numbers entered after a validation: the error is set, the
\* result of the validation is still there and the group has its one event
C26_Witness ==
    /\ fx.fn = "validate" /\ ~fx.ok
    /\ fx.error = [count |-> 5]
    /\ fx.result # Null
    /\ Len(GroupById(selectedGroupId).events) = 1
    /\ Len(GroupById(selectedGroupId).sestine) = 2


\* C27: in a call of generateUniqueSestine with a factory of the app (generate
\* in both modes, seeded regenerate) the slot at position k (from 1) samples
\* again, at the nonces the earlier slots were accepted at, the combinations
\* they hold; its attemptNonce is at least k - 1; no call fills more than
\* NonceLimit + 1 slots, and one asked for more ends with the nonce error.
C27_SlotsResample ==
    (fx.fn = "fill") =>
        /\ \A k \in 1..Len(fx.result.out) :
             /\ fx.result.out[k].meta.attemptNonce >= k - 1
             /\ \A j \in 1..(k - 1) :
                  /\ fx.result.out[j].meta.attemptNonce
                       < fx.result.out[k].meta.attemptNonce
                  /\ SampleAtSlot(fx, k, fx.result.out[j].meta.attemptNonce).nums
                       = fx.result.out[j].nums
        /\ Len(fx.result.out) <= NonceLimit + 1
        /\ fx.count > NonceLimit + 1 => fx.result.err = "nonce"

\* a call for NonceLimit + 2 slots over an empty set: the slots were accepted
\* at the nonces 0, 1, ..., NonceLimit and the next one met the nonce limit
C27_Witness ==
    /\ fx.fn = "fill" /\ fx.existingKeys = {}
    /\ fx.count = NonceLimit + 2
    /\ fx.result.err = "nonce"
    /\ Len(fx.result.out) = NonceLimit + 1
    /\ \A k \in 1..Len(fx.result.out) : fx.result.out[k].meta.attemptNonce = k - 1


\* what regenerateNonFrozenInGroup would put in place of the non-frozen
\* combinations of g in the present state, the seed being enabled
SeededReplacement(g) ==
    generateUniqueSestine(
        Len(g.sestine) - Len(FrozenOf(g)), RegenKeys(globalKeys, g),
        RegenFactory(TRUE, SeedOf(settings), g.id, <<>>), Constraints(settings),
        Options(TRUE, SeedOf(settings), settings.superstitionEnabled))

KeySeq(sestine) == [j \in 1..Len(sestine) |-> sestine[j].key]

\* C28: right after a seeded regenerateNonFrozenInGroup has replaced the
\* non-frozen combinations of a group, the same click on the same group gives
\* the same replacements again: no error, the same keys in the same order.
C28_SeededRegenIdempotent ==
    (outcome.kind = "regenerated" /\ settings.seedEnabled) =>
        LET g == GroupById(selectedGroupId)
            r == SeededReplacement(g)
        IN  /\ r.err = "none"
            /\ KeySeq(r.out) = KeySeq(SelectSeq(g.sestine, LAMBDA x : ~x.frozen))
            /\ KeySeq(FrozenOf(g)) \o KeySeq(r.out) = KeySeq(g.sestine)

\* a seeded regeneration kept a frozen combination and replaced another one,
\* the replacement having collided with a stored key before it was accepted
C28_Witness ==
    /\ outcome.kind = "regenerated" /\ settings.seedEnabled
    /\ Len(groups) = 2
    /\ \E j, k \in 1..Len(GroupById(selectedGroupId).sestine) :
         /\ GroupById(selectedGroupId).sestine[j].frozen
         /\ ~GroupById(selectedGroupId).sestine[k].frozen
         /\ GroupById(selectedGroupId).sestine[k].meta.attemptNonce > 0


\* C29: a call of generateForSelectedGroup keeps the id of the group selected
\* when it started; its commit puts the whole batch before the combinations of
\* the group with that id and one event before its events, whatever group is
\* selected then, and changes no other group; if no group has that id any more
\* (deleteGroup or resetAll while the call was suspended) the commit changes no
\* group and the call ends without an error.
C29_CommitToStartGroup ==
    [][/\ (gen.pc = "idle" /\ gen'.pc # "idle") => gen'.gid = selectedGroupId
       /\ (gen.pc # "idle" /\ gen'.pc # "idle") => gen'.gid = gen.gid
       /\ (gen.pc = "sleeping" /\ outcome'.kind = "committed") =>
            /\ outcome'.err = "none"
            /\ Len(groups') = Len(groups)
            /\ \A i \in 1..Len(groups) :
                 IF groups[i].id = gen.gid
                 THEN /\ groups'[i].id = gen.gid
                      /\ groups'[i].sestine = gen.allGenerated \o groups[i].sestine
                      /\ Len(gen.allGenerated) = gen.n
                      /\ Tail(groups'[i].events) = groups[i].events
                 ELSE groups'[i] = groups[i]
            /\ (\A i \in 1..Len(groups) : groups[i].id # gen.gid) => groups' = groups
      ]_vars

\* a call ended with its commit after the group it started in was deleted: the
\* only group left was created meanwhile and holds nothing
C29_Witness ==
    /\ outcome.kind = "committed" /\ outcome.err = "none" /\ outcome.total >= 1
    /\ Len(groups) = 1
    /\ groups[1].id = newId(2)
    /\ groups[1].sestine = <<>> /\ groups[1].events = <<>>
    /\ selectedGroupId = newId(2)


\* no two stored places hold combinations with the same six numbers
NoSameNumbers(gs) ==
    \A i, h \in 1..Len(gs) :
        \A j \in 1..Len(gs[i].sestine), k \in 1..Len(gs[h].sestine) :
            (<<i, j>> # <<h, k>>)
              => normalizeNumsImport(gs[i].sestine[j].nums)
                   # normalizeNumsImport(gs[h].sestine[k].nums)

\* C30: an import applied in merge mode with every duplicate case at "skip",
\* into groups that hold no combination twice, leaves groups that hold no
\* combination twice.
C30_MergeSkipKeepsUnique ==
    [][(/\ fx'.fn = "import" /\ groups' # groups
        /\ fx'.applied.mode = "merge"
        /\ \A i \in 1..Len(fx'.applied.dupCases) :
             fx'.applied.dupCases[i].action = "skip"
        /\ NoSameNumbers(groups))
         => NoSameNumbers(groups')]_vars

====
